---- MODULE Spec2Model ----
(***************************************************************************)
(* Model of the PhysicsAdventure rigid-body core: Vector2D, RigidBody,     *)
(* CollisionDetection / SpatialGrid and PhysicsEngine.                     *)
(*                                                                         *)
(* Numbers.  The JavaScript code computes in IEEE doubles.  The model uses *)
(* fixed-point numbers: an integer n stands for the real n / Scale, every  *)
(* product and quotient is rounded to the nearest representable value.     *)
(* Time is measured in ticks of 1 / TicksPerSecond seconds, so that the    *)
(* fixed time step 1/60 s is FixedTimeStep ticks.                          *)
(*                                                                         *)
(* JavaScript `a || d` treats undefined, 0, false and '' alike; an option  *)
(* that is absent is therefore written 0 / FALSE / "" in an options record.*)
(***************************************************************************)
EXTENDS Integers, Sequences, FiniteSets, TLC

\* ------------------------------------------------------------------------
\* Fixed-point arithmetic
\* ------------------------------------------------------------------------

Scale == 1000

TicksPerSecond == 120

Abs(n) == IF n < 0 THEN 0 - n ELSE n

Sgn(n) == IF n < 0 THEN 0 - 1 ELSE IF n > 0 THEN 1 ELSE 0

Min2(a, b) == IF a < b THEN a ELSE b

Max2(a, b) == IF a > b THEN a ELSE b

\* a / b on integers, rounded to nearest (b # 0); x and y are the values of
\* a and b, computed once
RDiv(a, b) ==
    CHOOSE q \in { Sgn(x) * Sgn(y) * (IF 2 * (Abs(x) % Abs(y)) >= Abs(y)
                                      THEN (Abs(x) \div Abs(y)) + 1
                                      ELSE Abs(x) \div Abs(y)) :
                   x \in {a}, y \in {b} } : TRUE

\* floor(a / b) for b > 0 (Math.floor)
Floor(a, b) == IF a >= 0 THEN a \div b ELSE 0 - ((Abs(a) + b - 1) \div b)

FMul(a, b) == RDiv(a * b, Scale)

FDiv(a, b) == RDiv(a * Scale, b)

\* x * dt for a duration of dt ticks
TimesDt(x, dt) == RDiv(x * dt, TicksPerSecond)

RECURSIVE SqrtIter(_, _, _)
SqrtIter(n, lo, hi) ==
    IF lo >= hi THEN lo
    ELSE CHOOSE r \in { IF mid * mid <= n THEN SqrtIter(n, mid, hi)
                                          ELSE SqrtIter(n, lo, mid - 1) :
                        mid \in {(lo + hi + 1) \div 2} } : TRUE

\* Math.sqrt on an integer, rounded to nearest
ISqrt(n) ==
    LET r == SqrtIter(n, 0, 46340)
    IN  IF n - r * r > r THEN r + 1 ELSE r

\* Math.sqrt on a fixed-point number
FSqrt(a) == ISqrt(a * Scale)

\* ------------------------------------------------------------------------
\* Vector2D
\* ------------------------------------------------------------------------

Vec(x, y) == [x |-> x, y |-> y]

VZero == Vec(0, 0)

VAdd(a, b) == Vec(a.x + b.x, a.y + b.y)

VSub(a, b) == Vec(a.x - b.x, a.y - b.y)

VMul(a, s) == Vec(FMul(a.x, s), FMul(a.y, s))

VDot(a, b) == FMul(a.x, b.x) + FMul(a.y, b.y)

VMagnitude(a) == ISqrt(a.x * a.x + a.y * a.y)

VMagnitudeSquared(a) == RDiv(a.x * a.x + a.y * a.y, Scale)

VIsZero(a) == a.x = 0 /\ a.y = 0

VNormalize(a) ==
    LET mag == VMagnitude(a)
    IN  IF mag = 0 THEN VZero ELSE Vec(FDiv(a.x, mag), FDiv(a.y, mag))

VDistance(a, b) == VMagnitude(VSub(a, b))

VTimesDt(a, dt) == Vec(TimesDt(a.x, dt), TimesDt(a.y, dt))

\* divideMut(scalar) without the zero test: a mutant of divideMut
divideMutUnguarded(v, scalar) ==
    [thrown |-> FALSE,
     this |-> IF scalar = 0 THEN v ELSE Vec(FDiv(v.x, scalar), FDiv(v.y, scalar))]

\* v.divide(scalar): whether it throws Error("Division by zero"), else the new vector
divide(v, scalar) ==
    IF scalar = 0 THEN [thrown |-> TRUE, returned |-> VZero]
    ELSE [thrown |-> FALSE, returned |-> Vec(FDiv(v.x, scalar), FDiv(v.y, scalar))]

\* v.divideMut(scalar): whether it throws, and v afterwards
divideMut(v, scalar) ==
    IF scalar = 0 THEN [thrown |-> TRUE, this |-> v]
    ELSE [thrown |-> FALSE, this |-> Vec(FDiv(v.x, scalar), FDiv(v.y, scalar))]

GRAVITY_EARTH == Vec(0, 0 - 9810)

ZERO_GRAVITY == Vec(0, 0)

\* ------------------------------------------------------------------------
\* RigidBody
\* ------------------------------------------------------------------------

\* a || d  on numbers
OrNum(a, d) == IF a = 0 THEN d ELSE a

\* a || d  on strings
OrStr(a, d) == IF a = "" THEN d ELSE a

DefaultMass == 1000

DefaultRestitution == 800

DefaultFriction == 100

DefaultDrag == 1

DefaultRadius == 10000

DefaultAngularDrag == 10

SleepThreshold == 10

\* momentOfInertia by shape (non-static bodies)
ShapeInertia(b) ==
    IF b.shape = "circle"
    THEN FMul(FMul(FMul(Scale \div 2, b.mass), b.radius), b.radius)
    ELSE IF b.shape = "rectangle"
    THEN RDiv(FMul(b.mass, FMul(b.width, b.width) + FMul(b.height, b.height)), 12)
    ELSE FMul(FMul(b.mass, b.radius), b.radius)

updateMomentOfInertia(b) ==
    IF b.isStatic
    THEN [b EXCEPT !.momentOfInertia = 0, !.inverseMomentOfInertia = 0]
    ELSE LET I == ShapeInertia(b)
         IN  [b EXCEPT !.momentOfInertia = I,
                       !.inverseMomentOfInertia = IF I > 0 THEN FDiv(Scale, I) ELSE 0]

updateDerivedProperties(b) ==
    updateMomentOfInertia(
        IF b.mass <= 0
        THEN [b EXCEPT !.inverseMass = 0, !.isStatic = TRUE]
        ELSE [b EXCEPT !.inverseMass = FDiv(Scale, b.mass)])

\* an options record with every option absent
NoOptions ==
    [id |-> << >>, position |-> VZero, velocity |-> VZero, angularVelocity |-> 0,
     mass |-> 0, restitution |-> 0, friction |-> 0, shape |-> "", radius |-> 0,
     width |-> 0, height |-> 0, isStatic |-> FALSE, material |-> ""]

\* new RigidBody(options)
RigidBody(o) ==
    LET mass   == OrNum(o.mass, DefaultMass)
        radius == OrNum(o.radius, DefaultRadius)
    IN  updateDerivedProperties(
          [id          |-> o.id,
           position    |-> o.position,
           velocity    |-> o.velocity,
           mass        |-> mass,
           inverseMass |-> IF mass > 0 THEN FDiv(Scale, mass) ELSE 0,
           restitution |-> OrNum(o.restitution, DefaultRestitution),
           friction    |-> OrNum(o.friction, DefaultFriction),
           drag        |-> DefaultDrag,
           angularDrag |-> DefaultAngularDrag,
           radius      |-> radius,
           shape       |-> OrStr(o.shape, "circle"),
           width       |-> OrNum(o.width, radius * 2),
           height      |-> OrNum(o.height, radius * 2),
           isStatic    |-> o.isStatic,
           material    |-> OrStr(o.material, "default"),
           isSleeping  |-> FALSE,
           forces      |-> << >>,
           torque      |-> 0,
           angularVelocity |-> o.angularVelocity,
           momentOfInertia |-> 0,
           inverseMomentOfInertia |-> 0,
           netForce    |-> VZero,
           netTorque   |-> 0,
           colliding   |-> FALSE,
           collisionNormal |-> VZero])

\* applyForce(force): the point argument is never passed by any caller
applyForce(b, force) ==
    IF b.isStatic THEN b
    ELSE [b EXCEPT !.forces = Append(@, force)]

\* applyImpulse(impulse)
applyImpulse(b, impulse) ==
    IF b.isStatic THEN b
    ELSE [b EXCEPT !.velocity = VAdd(@, VMul(impulse, b.inverseMass))]

applyTorque(b, torque) ==
    IF b.isStatic THEN b
    ELSE [b EXCEPT !.torque = @ + torque]

clearForces(b) ==
    [b EXCEPT !.forces = << >>, !.torque = 0, !.netForce = VZero, !.netTorque = 0]

RECURSIVE SumForces(_, _)
SumForces(fs, i) ==
    IF i > Len(fs) THEN VZero ELSE VAdd(fs[i], SumForces(fs, i + 1))

calculateNetForce(b) ==
    LET applied == SumForces(b.forces, 1)
        dragForce ==
            IF VMagnitude(b.velocity) > 0
            THEN VMul(VNormalize(b.velocity),
                      0 - FMul(b.drag, VMagnitudeSquared(b.velocity)))
            ELSE VZero
        angularDragTorque ==
            IF Abs(b.angularVelocity) > 0
            THEN FMul(FMul(0 - b.angularDrag, b.angularVelocity), Abs(b.angularVelocity))
            ELSE 0
    IN  [b EXCEPT !.netForce = VAdd(applied, dragForce),
                  !.netTorque = b.torque + angularDragTorque]

getKineticEnergy(b) ==
    FMul(FMul(Scale \div 2, b.mass), VMagnitudeSquared(b.velocity))
    + FMul(FMul(FMul(Scale \div 2, b.momentOfInertia), b.angularVelocity), b.angularVelocity)

\* updateSleepState that marks the body asleep without stopping it
updateSleepStateKeepsMoving(b) ==
    IF getKineticEnergy(b) < SleepThreshold
    THEN [b EXCEPT !.isSleeping = TRUE]
    ELSE [b EXCEPT !.isSleeping = FALSE]

updateSleepState(b) ==
    IF getKineticEnergy(b) < SleepThreshold
    THEN [b EXCEPT !.isSleeping = TRUE, !.velocity = VZero, !.angularVelocity = 0]
    ELSE [b EXCEPT !.isSleeping = FALSE]

wake(b) == [b EXCEPT !.isSleeping = FALSE]

\* integrate(deltaTime), deltaTime in ticks
integrate(b, dt) ==
    IF b.isStatic THEN b
    ELSE LET acceleration == VMul(b.netForce, b.inverseMass)
             velocity == VAdd(b.velocity, VTimesDt(acceleration, dt))
             position == VAdd(b.position, VTimesDt(velocity, dt))
             angularAcceleration == FMul(b.netTorque, b.inverseMomentOfInertia)
             angularVelocity == b.angularVelocity + TimesDt(angularAcceleration, dt)
         IN  clearForces(updateSleepState(
               [b EXCEPT !.velocity = velocity,
                         !.position = position,
                         !.angularVelocity = angularVelocity]))

\* getBounds() for the two shapes the switch handles
getBounds(b) ==
    IF b.shape = "circle"
    THEN [left   |-> b.position.x - b.radius,
          right  |-> b.position.x + b.radius,
          top    |-> b.position.y + b.radius,
          bottom |-> b.position.y - b.radius]
    ELSE [left   |-> b.position.x - RDiv(b.width, 2),
          right  |-> b.position.x + RDiv(b.width, 2),
          top    |-> b.position.y + RDiv(b.height, 2),
          bottom |-> b.position.y - RDiv(b.height, 2)]

\* the call depth at which the JavaScript engine raises RangeError
StackLimit == 6

NoBox == [left |-> 0, right |-> 0, top |-> 0, bottom |-> 0]

\* b.getBounds() entered with `depth` frames of getBounds on the stack: the
\* default branch of the switch calls getBounds() again
RECURSIVE getBoundsCall(_, _)
getBoundsCall(b, depth) ==
    IF depth > StackLimit THEN [thrown |-> TRUE, box |-> NoBox]
    ELSE IF b.shape \in {"circle", "rectangle"}
    THEN [thrown |-> FALSE, box |-> getBounds(b)]
    ELSE getBoundsCall(b, depth + 1)

\* applyFriction that applies the friction impulse to `this` only
applyFrictionOneSided(h, a, b, normal, impulseScalar) ==
    LET relativeVelocity == VSub(h[b].velocity, h[a].velocity)
        rawTangent == VSub(relativeVelocity, VMul(normal, VDot(relativeVelocity, normal)))
        tangent == VNormalize(rawTangent)
        frictionCoefficient == FSqrt(FMul(h[a].friction, h[b].friction))
        rawImpulse == FDiv(0 - VDot(relativeVelocity, tangent),
                           h[a].inverseMass + h[b].inverseMass)
        maxFriction == FMul(Abs(impulseScalar), frictionCoefficient)
        frictionImpulse == Max2(0 - maxFriction, Min2(maxFriction, rawImpulse))
        frictionVector == VMul(tangent, frictionImpulse)
        va == IF h[a].isStatic THEN h[a].velocity
              ELSE VSub(h[a].velocity, VMul(frictionVector, h[a].inverseMass))
    IN  IF VIsZero(rawTangent) THEN h
        ELSE [h EXCEPT ![a].velocity = va]

\* applyFriction(other, normal, impulseScalar) on heap h, this = a, other = b
applyFriction(h, a, b, normal, impulseScalar) ==
    LET relativeVelocity == VSub(h[b].velocity, h[a].velocity)
        rawTangent == VSub(relativeVelocity, VMul(normal, VDot(relativeVelocity, normal)))
        tangent == VNormalize(rawTangent)
        frictionCoefficient == FSqrt(FMul(h[a].friction, h[b].friction))
        rawImpulse == FDiv(0 - VDot(relativeVelocity, tangent),
                           h[a].inverseMass + h[b].inverseMass)
        maxFriction == FMul(Abs(impulseScalar), frictionCoefficient)
        frictionImpulse == Max2(0 - maxFriction, Min2(maxFriction, rawImpulse))
        frictionVector == VMul(tangent, frictionImpulse)
        va == IF h[a].isStatic THEN h[a].velocity
              ELSE VSub(h[a].velocity, VMul(frictionVector, h[a].inverseMass))
        vb == IF h[b].isStatic THEN h[b].velocity
              ELSE VAdd(h[b].velocity, VMul(frictionVector, h[b].inverseMass))
    IN  IF VIsZero(rawTangent) THEN h
        ELSE [h EXCEPT ![a].velocity = va, ![b].velocity = vb]

\* resolveCollision with the isStatic test on `other` dropped from the separation
resolveCollisionMovesOther(h, a, b, collision) ==
    IF h[a].isStatic /\ h[b].isStatic THEN h
    ELSE
      LET normal == collision.normal
          depth  == collision.depth
          totalInverseMass == h[a].inverseMass + h[b].inverseMass
          separationVector == VMul(normal, FDiv(depth, totalInverseMass))
          pa == IF totalInverseMass > 0 /\ ~h[a].isStatic
                THEN VAdd(h[a].position, VMul(separationVector, h[a].inverseMass))
                ELSE h[a].position
          pb == IF totalInverseMass > 0
                THEN VSub(h[b].position, VMul(separationVector, h[b].inverseMass))
                ELSE h[b].position
          h1 == [h EXCEPT ![a] = [wake(h[a]) EXCEPT !.position = pa],
                          ![b] = [wake(h[b]) EXCEPT !.position = pb]]
          relativeVelocity == VSub(h1[b].velocity, h1[a].velocity)
          velocityAlongNormal == VDot(relativeVelocity, normal)
          e == Min2(h1[a].restitution, h1[b].restitution)
          impulseScalar == FDiv(0 - FMul(Scale + e, velocityAlongNormal), totalInverseMass)
          impulse == VMul(normal, impulseScalar)
          va == IF h1[a].isStatic THEN h1[a].velocity
                ELSE VSub(h1[a].velocity, VMul(impulse, h1[a].inverseMass))
          vb == IF h1[b].isStatic THEN h1[b].velocity
                ELSE VAdd(h1[b].velocity, VMul(impulse, h1[b].inverseMass))
          h2 == [h1 EXCEPT ![a].velocity = va, ![b].velocity = vb]
          h3 == applyFriction(h2, a, b, normal, impulseScalar)
      IN  IF velocityAlongNormal > 0 THEN h1
          ELSE [h3 EXCEPT ![a].colliding = TRUE,
                          ![b].colliding = TRUE,
                          ![a].collisionNormal = normal,
                          ![b].collisionNormal = VMul(normal, 0 - Scale)]

\* this.resolveCollision(other, collision) on heap h, this = a, other = b
resolveCollision(h, a, b, collision) ==
    IF h[a].isStatic /\ h[b].isStatic THEN h
    ELSE
      LET normal == collision.normal
          depth  == collision.depth
          totalInverseMass == h[a].inverseMass + h[b].inverseMass
          separationVector == VMul(normal, FDiv(depth, totalInverseMass))
          pa == IF totalInverseMass > 0 /\ ~h[a].isStatic
                THEN VAdd(h[a].position, VMul(separationVector, h[a].inverseMass))
                ELSE h[a].position
          pb == IF totalInverseMass > 0 /\ ~h[b].isStatic
                THEN VSub(h[b].position, VMul(separationVector, h[b].inverseMass))
                ELSE h[b].position
          h1 == [h EXCEPT ![a] = [wake(h[a]) EXCEPT !.position = pa],
                          ![b] = [wake(h[b]) EXCEPT !.position = pb]]
          relativeVelocity == VSub(h1[b].velocity, h1[a].velocity)
          velocityAlongNormal == VDot(relativeVelocity, normal)
          e == Min2(h1[a].restitution, h1[b].restitution)
          impulseScalar == FDiv(0 - FMul(Scale + e, velocityAlongNormal), totalInverseMass)
          impulse == VMul(normal, impulseScalar)
          va == IF h1[a].isStatic THEN h1[a].velocity
                ELSE VSub(h1[a].velocity, VMul(impulse, h1[a].inverseMass))
          vb == IF h1[b].isStatic THEN h1[b].velocity
                ELSE VAdd(h1[b].velocity, VMul(impulse, h1[b].inverseMass))
          h2 == [h1 EXCEPT ![a].velocity = va, ![b].velocity = vb]
          h3 == applyFriction(h2, a, b, normal, impulseScalar)
      IN  IF velocityAlongNormal > 0 THEN h1
          ELSE [h3 EXCEPT ![a].colliding = TRUE,
                          ![b].colliding = TRUE,
                          ![a].collisionNormal = normal,
                          ![b].collisionNormal = VMul(normal, 0 - Scale)]

\* ------------------------------------------------------------------------
\* SpatialGrid
\* ------------------------------------------------------------------------

CellSize == 100000

RECURSIVE CellColumn(_, _, _)
CellColumn(x, y, maxY) ==
    IF y > maxY THEN << >> ELSE << <<x, y>> >> \o CellColumn(x, y + 1, maxY)

RECURSIVE CellRows(_, _, _, _)
CellRows(x, maxX, minY, maxY) ==
    IF x > maxX THEN << >>
    ELSE CellColumn(x, minY, maxY) \o CellRows(x + 1, maxX, minY, maxY)

\* getCells(body): the cells the body's bounds span, x outer, y inner
getCells(b) ==
    LET bounds == getBounds(b)
    IN  CellRows(Floor(bounds.left, CellSize), Floor(bounds.right, CellSize),
                 Floor(bounds.bottom, CellSize), Floor(bounds.top, CellSize))

SeqRange(s) == {s[i] : i \in 1..Len(s)}

SeqContains(s, e) == \E i \in 1..Len(s) : s[i] = e

\* the grid after clear() and insert(body) for every body of bs, in order:
\* the list stored under a cell holds the bodies spanning it, in insertion order
GridCell(h, bs, cell) ==
    SelectSeq(bs, LAMBDA b : cell \in SeqRange(getCells(h[b])))

RECURSIVE AppendNew(_, _, _)
AppendNew(acc, s, i) ==
    IF i > Len(s) THEN acc
    ELSE AppendNew(IF SeqContains(acc, s[i]) THEN acc ELSE Append(acc, s[i]), s, i + 1)

RECURSIVE QueryCells(_, _, _, _, _)
QueryCells(h, bs, cells, i, acc) ==
    IF i > Len(cells) THEN acc
    ELSE QueryCells(h, bs, cells, i + 1, AppendNew(acc, GridCell(h, bs, cells[i]), 1))

\* the keys of the grid's Map in the order insert() created them
RECURSIVE GridKeys(_, _, _, _)
GridKeys(h, bs, i, acc) ==
    IF i > Len(bs) THEN acc
    ELSE GridKeys(h, bs, i + 1, AppendNew(acc, getCells(h[bs[i]]), 1))

CellsToGrid(h, bs, cells) ==
    [k \in 1..Len(cells) |-> [cell |-> cells[k], bodies |-> GridCell(h, bs, cells[k])]]

\* spatialGrid after clear() and insert(body) for every body of bs
GridOf(h, bs) == CellsToGrid(h, bs, GridKeys(h, bs, 1, << >>))

\* getAllBodies(): the bodies stored in the grid g, de-duplicated
RECURSIVE getAllBodies(_, _, _)
getAllBodies(g, k, acc) ==
    IF k > Len(g) THEN acc
    ELSE getAllBodies(g, k + 1, AppendNew(acc, g[k].bodies, 1))

\* query(body): de-duplicated bodies of the cells the body spans
query(h, bs, b) == QueryCells(h, bs, getCells(h[b]), 1, << >>)

\* ------------------------------------------------------------------------
\* CollisionDetection
\* ------------------------------------------------------------------------

\* ids are strings: sequences of character codes, compared as JavaScript
\* compares strings
RECURSIVE StrLess(_, _)
StrLess(s, t) ==
    IF t = << >> THEN FALSE
    ELSE IF s = << >> THEN TRUE
    ELSE IF Head(s) # Head(t) THEN Head(s) < Head(t)
    ELSE StrLess(Tail(s), Tail(t))

Dash == 45

\* the pair identifier `${lower}-${higher}`
PairId(ida, idb) ==
    IF StrLess(ida, idb) THEN ida \o <<Dash>> \o idb ELSE idb \o <<Dash>> \o ida

aabbOverlap(ba, bb) ==
    LET boundsA == getBounds(ba)
        boundsB == getBounds(bb)
    IN  ~(boundsA.right < boundsB.left \/ boundsA.left > boundsB.right
          \/ boundsA.top < boundsB.bottom \/ boundsA.bottom > boundsB.top)

\* inner loop of broadPhase over nearbyBodies; st = [pairs, checked]
RECURSIVE BroadInner(_, _, _, _, _)
BroadInner(h, body, nearby, j, st) ==
    IF j > Len(nearby) THEN st
    ELSE LET other  == nearby[j]
             pairId == PairId(h[body].id, h[other].id)
         IN  IF body = other \/ pairId \in st.checked
             THEN BroadInner(h, body, nearby, j + 1, st)
             ELSE BroadInner(h, body, nearby, j + 1,
                    [pairs   |-> IF aabbOverlap(h[body], h[other])
                                 THEN Append(st.pairs, <<body, other>>)
                                 ELSE st.pairs,
                     checked |-> st.checked \cup {pairId}])

RECURSIVE BroadOuter(_, _, _, _)
BroadOuter(h, bs, i, st) ==
    IF i > Len(bs) THEN st
    ELSE BroadOuter(h, bs, i + 1, BroadInner(h, bs[i], query(h, bs, bs[i]), 1, st))

broadPhase(h, bs) == BroadOuter(h, bs, 1, [pairs |-> << >>, checked |-> {}]).pairs

NoCollision == [hit |-> FALSE, normal |-> VZero, depth |-> 0, contactPoint |-> VZero]

Contact(n, d, p) == [hit |-> TRUE, normal |-> n, depth |-> d, contactPoint |-> p]

\* circleCircleCollision with the normal pointing from the second circle to the first
circleCircleCollisionReversed(ca, cb) ==
    LET distance  == VDistance(ca.position, cb.position)
        radiusSum == ca.radius + cb.radius
        normal == IF distance = 0 THEN Vec(Scale, 0)
                  ELSE VNormalize(VSub(ca.position, cb.position))
        depth  == IF distance = 0 THEN radiusSum ELSE radiusSum - distance
    IN  IF distance > radiusSum THEN NoCollision
        ELSE Contact(normal, depth, VAdd(ca.position, VMul(normal, ca.radius)))

circleCircleCollision(ca, cb) ==
    LET distance  == VDistance(ca.position, cb.position)
        radiusSum == ca.radius + cb.radius
        normal == IF distance = 0 THEN Vec(Scale, 0)
                  ELSE VNormalize(VSub(cb.position, ca.position))
        depth  == IF distance = 0 THEN radiusSum ELSE radiusSum - distance
    IN  IF distance > radiusSum THEN NoCollision
        ELSE Contact(normal, depth, VAdd(ca.position, VMul(normal, ca.radius)))

circleRectangleCollision(circle, rectangle) ==
    LET bounds == getBounds(rectangle)
        closestPoint ==
            Vec(Max2(bounds.left, Min2(circle.position.x, bounds.right)),
                Max2(bounds.bottom, Min2(circle.position.y, bounds.top)))
        distance == VDistance(circle.position, closestPoint)
        distToLeft   == circle.position.x - bounds.left
        distToRight  == bounds.right - circle.position.x
        distToBottom == circle.position.y - bounds.bottom
        distToTop    == bounds.top - circle.position.y
        minDist == Min2(Min2(distToLeft, distToRight), Min2(distToBottom, distToTop))
    IN  IF distance > circle.radius THEN NoCollision
        ELSE IF distance = 0
        THEN IF minDist = distToLeft
             THEN Contact(Vec(0 - Scale, 0), circle.radius + distToLeft, closestPoint)
             ELSE IF minDist = distToRight
             THEN Contact(Vec(Scale, 0), circle.radius + distToRight, closestPoint)
             ELSE IF minDist = distToBottom
             THEN Contact(Vec(0, 0 - Scale), circle.radius + distToBottom, closestPoint)
             ELSE Contact(Vec(0, Scale), circle.radius + distToTop, closestPoint)
        ELSE Contact(VNormalize(VSub(circle.position, closestPoint)),
                     circle.radius - distance, closestPoint)

rectangleRectangleCollision(ra, rb) ==
    LET boundsA == getBounds(ra)
        boundsB == getBounds(rb)
        overlapX == Min2(boundsA.right, boundsB.right) - Max2(boundsA.left, boundsB.left)
        overlapY == Min2(boundsA.top, boundsB.top) - Max2(boundsA.bottom, boundsB.bottom)
        contactPoint ==
            Vec(RDiv(Max2(boundsA.left, boundsB.left) + Min2(boundsA.right, boundsB.right), 2),
                RDiv(Max2(boundsA.bottom, boundsB.bottom) + Min2(boundsA.top, boundsB.top), 2))
    IN  IF overlapX <= 0 \/ overlapY <= 0 THEN NoCollision
        ELSE IF overlapX < overlapY
        THEN Contact(IF ra.position.x < rb.position.x THEN Vec(0 - Scale, 0) ELSE Vec(Scale, 0),
                     overlapX, contactPoint)
        ELSE Contact(IF ra.position.y < rb.position.y THEN Vec(0, 0 - Scale) ELSE Vec(0, Scale),
                     overlapY, contactPoint)

\* if (collision) collision.normal = collision.normal.multiply(-1)
FlipNormal(collision) ==
    IF collision.hit THEN [collision EXCEPT !.normal = VMul(@, 0 - Scale)]
    ELSE collision

narrowPhase(ba, bb) ==
    IF ba.isStatic /\ bb.isStatic THEN NoCollision
    ELSE IF ba.shape = "circle" /\ bb.shape = "circle"
    THEN circleCircleCollision(ba, bb)
    ELSE IF ba.shape = "circle" /\ bb.shape = "rectangle"
    THEN circleRectangleCollision(ba, bb)
    ELSE IF ba.shape = "rectangle" /\ bb.shape = "circle"
    THEN FlipNormal(circleRectangleCollision(bb, ba))
    ELSE IF ba.shape = "rectangle" /\ bb.shape = "rectangle"
    THEN rectangleRectangleCollision(ba, bb)
    ELSE NoCollision

\* if (collision) collisions.push({ bodyA, bodyB, collision })
PushCollision(pair, collision, rest) ==
    IF collision.hit
    THEN << [bodyA |-> pair[1], bodyB |-> pair[2], collision |-> collision] >> \o rest
    ELSE rest

\* the narrow-phase loop of detectCollisions over the pairs of the broad phase
RECURSIVE NarrowAll(_, _, _)
NarrowAll(h, pairs, i) ==
    IF i > Len(pairs) THEN << >>
    ELSE PushCollision(pairs[i], narrowPhase(h[pairs[i][1]], h[pairs[i][2]]),
                       NarrowAll(h, pairs, i + 1))

\* the reset of the collision scratch state at the top of detectCollisions
ResetCollisionState(h, bs) ==
    [k \in DOMAIN h |->
        IF SeqContains(bs, k)
        THEN [h[k] EXCEPT !.colliding = FALSE, !.collisionNormal = VZero]
        ELSE h[k]]

\* detectCollisions(bodies): the collision pairs, computed on the reset heap
detectCollisions(h, bs) == NarrowAll(h, broadPhase(h, bs), 1)

\* ------------------------------------------------------------------------
\* PhysicsEngine: event system
\* ------------------------------------------------------------------------

EventNames == {"bodyAdded", "bodyRemoved", "step", "collision", "boundsCollision",
               "paused", "resumed", "timeScaleChanged", "worldCleared"}

\* The callbacks a client registers.  Each name is one function object:
\*   plain    returns normally
\*   thrower  throws
\*   offSelf  calls off(event, offSelf)
\*   offPlain calls off(event, plain)
\*   onPlain  calls on(event, plain) while the list is shorter than MaxListeners
Callbacks == {"plain", "thrower", "offSelf", "offPlain", "onPlain"}

MaxListeners == 3

\* on(event, callback)
on(ls, event, callback) == [ls EXCEPT ![event] = Append(@, callback)]

IndexOf(s, e) ==
    IF SeqContains(s, e) THEN CHOOSE i \in 1..Len(s) : s[i] = e /\ \A j \in 1..(i - 1) : s[j] # e
    ELSE 0

\* splice(index, 1)
RemoveAt(s, i) == SubSeq(s, 1, i - 1) \o SubSeq(s, i + 1, Len(s))

\* off(event, callback)
off(ls, event, callback) ==
    LET index == IndexOf(ls[event], callback)
    IN  IF index # 0 THEN [ls EXCEPT ![event] = RemoveAt(@, index)] ELSE ls

\* what running callback(data) does to the listener table, and whether it throws
CallListener(ls, event, callback) ==
    [listeners |->
        IF callback = "offSelf" THEN off(ls, event, "offSelf")
        ELSE IF callback = "offPlain" THEN off(ls, event, "plain")
        ELSE IF callback = "onPlain" /\ Len(ls[event]) < MaxListeners
        THEN on(ls, event, "plain")
        ELSE ls,
     threw |-> callback = "thrower"]

\* for (const callback of callbacks) try { callback(data) } catch { log }
\* the array iterator re-reads the live array's length before every element
RECURSIVE EmitLoop(_, _, _, _)
EmitLoop(ls, event, i, calls) ==
    IF i > Len(ls[event])
    THEN [listeners |-> ls, calls |-> calls, thrown |-> FALSE]
    ELSE LET r == CallListener(ls, event, ls[event][i])
         IN  EmitLoop(r.listeners, event, i + 1, Append(calls, ls[event][i]))

\* the same loop without the try/catch: the first exception leaves emit
RECURSIVE EmitLoopNoCatch(_, _, _, _)
EmitLoopNoCatch(ls, event, i, calls) ==
    IF i > Len(ls[event])
    THEN [listeners |-> ls, calls |-> calls, thrown |-> FALSE]
    ELSE LET r == CallListener(ls, event, ls[event][i])
         IN  IF r.threw
             THEN [listeners |-> r.listeners, calls |-> Append(calls, ls[event][i]),
                   thrown |-> TRUE]
             ELSE EmitLoopNoCatch(r.listeners, event, i + 1, Append(calls, ls[event][i]))

emitNoCatch(ls, event) == EmitLoopNoCatch(ls, event, 1, << >>)

\* emit(event, data): the listener table afterwards, the callbacks invoked in
\* order, and whether an exception left emit
emit(ls, event) == EmitLoop(ls, event, 1, << >>)

\* The observable context an engine method threads through its emits:
\*   listeners  eventListeners
\*   emitted    number of emit calls per event since the client's call began
\*   trace      phases entered and events emitted in the current step
\*   lastEmit   the last emit: its event, the bodies its data names, for a
\*              collision the velocities the listeners find in these bodies,
\*              the listeners registered when it was called, and the
\*              callbacks it invoked
\*   thrown     an exception is propagating out of the method
doEmitData(ctx, event, data) ==
    LET r == emit(ctx.listeners, event)
    IN  [listeners |-> r.listeners,
         emitted   |-> [ctx.emitted EXCEPT ![event] = @ + 1],
         trace     |-> Append(ctx.trace, event),
         lastEmit  |-> [event |-> event, data |-> data, seen |-> << >>,
                        registered |-> ctx.listeners[event],
                        calls |-> r.calls, returned |-> ~r.thrown],
         thrown    |-> r.thrown]

\* an emit whose data names no body
doEmit(ctx, event) == doEmitData(ctx, event, << >>)

NoEmits == [e \in EventNames |-> 0]

NoEmit == [event |-> "", data |-> << >>, seen |-> << >>, registered |-> << >>,
           calls |-> << >>, returned |-> TRUE]

\* toJSON(): the physical fields of the flat record
toJSON(b) ==
    [id |-> b.id, position |-> b.position, velocity |-> b.velocity,
     angularVelocity |-> b.angularVelocity, mass |-> b.mass,
     restitution |-> b.restitution, friction |-> b.friction, shape |-> b.shape,
     radius |-> b.radius, width |-> b.width, height |-> b.height,
     isStatic |-> b.isStatic, material |-> b.material]

\* RigidBody.fromJSON(data)
fromJSON(data) == RigidBody(data)

\* ------------------------------------------------------------------------
\* PhysicsEngine: the phases of a step, as functions of the heap of bodies
\* ------------------------------------------------------------------------

FixedTimeStep == 2

MaxSubSteps == 8

DragCoefficient == 470

Pi == 3142

RECURSIVE ApplyEach(_, _, _)
ApplyEach(b, fs, i) ==
    IF i > Len(fs) THEN b ELSE ApplyEach(applyForce(b, fs[i]), fs, i + 1)

\* the loop body of applyGlobalForces with earth gravity in place of
\* this.gravity: a mutant of GlobalForcesOn
GlobalForcesOnEarth(b, g, fs, density) ==
    IF b.isStatic \/ b.isSleeping THEN b
    ELSE LET b1 == applyForce(b, VMul(GRAVITY_EARTH, b.mass))
             b2 == ApplyEach(b1, fs, 1)
             area == FMul(FMul(Pi, b.radius), b.radius)
             dragMagnitude ==
                 FMul(FMul(FMul(FMul(Scale \div 2, density),
                                VMagnitudeSquared(b.velocity)), DragCoefficient), area)
         IN  IF density > 0 /\ VMagnitude(b.velocity) > 0
             THEN applyForce(b2, VMul(VNormalize(b.velocity), 0 - dragMagnitude))
             ELSE b2

\* the body of the loop of applyGlobalForces
GlobalForcesOn(b, g, fs, density) ==
    IF b.isStatic \/ b.isSleeping THEN b
    ELSE LET b1 == IF ~VIsZero(g) THEN applyForce(b, VMul(g, b.mass)) ELSE b
             b2 == ApplyEach(b1, fs, 1)
             area == FMul(FMul(Pi, b.radius), b.radius)
             dragMagnitude ==
                 FMul(FMul(FMul(FMul(Scale \div 2, density),
                                VMagnitudeSquared(b.velocity)), DragCoefficient), area)
         IN  IF density > 0 /\ VMagnitude(b.velocity) > 0
             THEN applyForce(b2, VMul(VNormalize(b.velocity), 0 - dragMagnitude))
             ELSE b2

RECURSIVE applyGlobalForces(_, _, _, _, _, _)
applyGlobalForces(h, bs, i, g, fs, density) ==
    IF i > Len(bs) THEN h
    ELSE applyGlobalForces([h EXCEPT ![bs[i]] = GlobalForcesOn(@, g, fs, density)],
                           bs, i + 1, g, fs, density)

RECURSIVE integrateBodies(_, _, _, _)
integrateBodies(h, bs, i, dt) ==
    IF i > Len(bs) THEN h
    ELSE integrateBodies(
           IF h[bs[i]].isStatic \/ h[bs[i]].isSleeping THEN h
           ELSE [h EXCEPT ![bs[i]] =
                    CHOOSE after \in { integrate(b, dt) : b \in {calculateNetForce(@)} } :
                        TRUE],
           bs, i + 1, dt)

\* the body of the loop of handleCollisions with the two statements swapped:
\* a mutant of HandlePair
HandlePairResolveFirst(st, pair) ==
    LET h1 == resolveCollision(st.heap, pair.bodyA, pair.bodyB, pair.collision)
        c  == [doEmitData(st.ctx, "collision", <<pair.bodyA, pair.bodyB>>)
                  EXCEPT !.lastEmit.seen = <<h1[pair.bodyA].velocity,
                                             h1[pair.bodyB].velocity>>]
    IN  [heap |-> h1, ctx |-> c]

\* the body of the loop of handleCollisions: emit('collision', pair), then
\* bodyA.resolveCollision(bodyB, collision); st = [heap, ctx]
HandlePair(st, pair) ==
    LET c == [doEmitData(st.ctx, "collision", <<pair.bodyA, pair.bodyB>>)
                 EXCEPT !.lastEmit.seen = <<st.heap[pair.bodyA].velocity,
                                            st.heap[pair.bodyB].velocity>>]
    IN  IF c.thrown THEN [heap |-> st.heap, ctx |-> c]
        ELSE [heap |-> resolveCollision(st.heap, pair.bodyA, pair.bodyB, pair.collision),
              ctx  |-> c]

\* the loop of handleCollisions over the detected pairs
RECURSIVE ResolvePairs(_, _, _)
ResolvePairs(st, pairs, i) ==
    IF i > Len(pairs) \/ st.ctx.thrown THEN st
    ELSE CHOOSE r \in { ResolvePairs(next, pairs, i + 1) :
                        next \in {HandlePair(st, pairs[i])} } : TRUE

handleCollisions(h, bs, ctx) ==
    CHOOSE st \in { ResolvePairs([heap |-> h0, ctx |-> ctx], pairs, 1) :
                     h0 \in {ResetCollisionState(h, bs)},
                     pairs \in {detectCollisions(ResetCollisionState(h, bs), bs)} } : TRUE

\* the loop body of enforceBounds without the tests on the sign of the velocity
BoundsCorrectionAlwaysFlips(b, wb) ==
    LET bounds == getBounds(b)
        offLeft   == bounds.left < wb.left
        x1  == IF offLeft THEN wb.left + (b.position.x - bounds.left) ELSE b.position.x
        vx1 == IF offLeft THEN FMul(b.velocity.x, 0 - b.restitution) ELSE b.velocity.x
        offRight  == bounds.right > wb.right
        x2  == IF offRight THEN wb.right - (bounds.right - x1) ELSE x1
        vx2 == IF offRight THEN FMul(vx1, 0 - b.restitution) ELSE vx1
        offBottom == bounds.bottom < wb.bottom
        y1  == IF offBottom THEN wb.bottom + (b.position.y - bounds.bottom) ELSE b.position.y
        vy1 == IF offBottom THEN FMul(b.velocity.y, 0 - b.restitution) ELSE b.velocity.y
        offTop    == bounds.top > wb.top
        y2  == IF offTop THEN wb.top - (bounds.top - y1) ELSE y1
        vy2 == IF offTop THEN FMul(vy1, 0 - b.restitution) ELSE vy1
    IN  [body |-> [b EXCEPT !.position = Vec(x2, y2), !.velocity = Vec(vx2, vy2)],
         corrected |-> offLeft \/ offRight \/ offBottom \/ offTop]

\* the loop body of enforceBounds with `corrected` assigned by the last test
\* alone: a mutant of BoundsCorrection
BoundsCorrectionTopOnly(b, wb) ==
    [body |-> b, corrected |-> getBounds(b).top > wb.top]

\* the body of the loop of enforceBounds for a non-static body; wb = this.bounds
BoundsCorrection(b, wb) ==
    LET bounds == getBounds(b)
        offLeft   == bounds.left < wb.left
        x1  == IF offLeft THEN wb.left + (b.position.x - bounds.left) ELSE b.position.x
        vx1 == IF offLeft /\ b.velocity.x < 0
               THEN FMul(b.velocity.x, 0 - b.restitution) ELSE b.velocity.x
        offRight  == bounds.right > wb.right
        x2  == IF offRight THEN wb.right - (bounds.right - x1) ELSE x1
        vx2 == IF offRight /\ vx1 > 0 THEN FMul(vx1, 0 - b.restitution) ELSE vx1
        offBottom == bounds.bottom < wb.bottom
        y1  == IF offBottom THEN wb.bottom + (b.position.y - bounds.bottom) ELSE b.position.y
        vy1 == IF offBottom /\ b.velocity.y < 0
               THEN FMul(b.velocity.y, 0 - b.restitution) ELSE b.velocity.y
        offTop    == bounds.top > wb.top
        y2  == IF offTop THEN wb.top - (bounds.top - y1) ELSE y1
        vy2 == IF offTop /\ vy1 > 0 THEN FMul(vy1, 0 - b.restitution) ELSE vy1
    IN  [body |-> [b EXCEPT !.position = Vec(x2, y2), !.velocity = Vec(vx2, vy2)],
         corrected |-> offLeft \/ offRight \/ offBottom \/ offTop]

\* the loop of enforceBounds; st = [heap, ctx]
RECURSIVE enforceBounds(_, _, _, _)
enforceBounds(st, bs, i, wb) ==
    IF i > Len(bs) THEN st
    ELSE IF st.heap[bs[i]].isStatic THEN enforceBounds(st, bs, i + 1, wb)
    ELSE LET r  == BoundsCorrection(st.heap[bs[i]], wb)
             h1 == [st.heap EXCEPT ![bs[i]] = r.body]
             c  == IF r.corrected THEN doEmitData(st.ctx, "boundsCollision", <<bs[i]>>)
                   ELSE st.ctx
         IN  IF c.thrown THEN [heap |-> h1, ctx |-> c]
             ELSE enforceBounds([heap |-> h1, ctx |-> c], bs, i + 1, wb)

\* step() with the enableCollisions test dropped
NextPhaseAlwaysCollide(phase, collisions, boundsOn) ==
    IF phase = "applyGlobalForces" THEN "solveConstraints"
    ELSE IF phase = "solveConstraints" THEN "integrateBodies"
    ELSE IF phase = "integrateBodies" THEN "handleCollisions"
    ELSE IF phase = "handleCollisions"
    THEN (IF boundsOn THEN "enforceBounds" ELSE "emitStep")
    ELSE "emitStep"

\* the order of the phases of step(): the phase that follows `phase`
NextPhase(phase, collisions, boundsOn) ==
    IF phase = "applyGlobalForces" THEN "solveConstraints"
    ELSE IF phase = "solveConstraints" THEN "integrateBodies"
    ELSE IF phase = "integrateBodies"
    THEN (IF collisions THEN "handleCollisions"
          ELSE IF boundsOn THEN "enforceBounds" ELSE "emitStep")
    ELSE IF phase = "handleCollisions"
    THEN (IF boundsOn THEN "enforceBounds" ELSE "emitStep")
    ELSE "emitStep"

\* ------------------------------------------------------------------------
\* State
\* ------------------------------------------------------------------------

VARIABLES
    heap,              \* the RigidBody objects created so far; a body is its index
    bodies,            \* engine.bodies
    forces,            \* engine.forces (constant global forces)
    gravity,           \* engine.gravity
    airDensity,        \* engine.airDensity
    bounds,            \* engine.bounds
    timeScale,         \* engine.timeScale
    paused,            \* engine.paused
    enableCollisions,  \* engine.enableCollisions
    boundsEnabled,     \* engine.boundsEnabled
    accumulator,       \* engine.accumulator, in ticks
    frameCount,        \* engine.frameCount
    eventListeners,    \* engine.eventListeners
    saved,             \* the records serialize() returned, most recent only
    otherBodies,       \* the bodies of a second PhysicsEngine
    grid,              \* collisionDetection.spatialGrid: its cells in insertion order
    game,              \* the GameManager and its LevelManager
    pc,                \* where the engine is inside update()/step(); "idle" outside
    subSteps,          \* the local subSteps of update()
    alpha,             \* what the last update() returned
    lastCall,          \* the client's last call: its method and its body argument
    entryAccumulator,  \* accumulator right after update() added the scaled deltaTime
    frameAtEntry,      \* frameCount when update() was called
    stepCalls,         \* calls of step() made by the current update()
    failed,            \* the client's last call ended with an exception
    emitted,           \* emit calls per event since the client's last call began
    trace,             \* phases entered and events emitted by the current step()
    lastEmit           \* the last emit call

worldVars == <<heap, bodies, forces, gravity, airDensity, bounds, grid, saved, game, otherBodies>>

clockVars == <<timeScale, paused, accumulator, frameCount>>

flagVars == <<enableCollisions, boundsEnabled>>

loopVars == <<subSteps, alpha, entryAccumulator, frameAtEntry, stepCalls>>

vars == <<heap, bodies, forces, gravity, airDensity, bounds, timeScale, paused,
          enableCollisions, boundsEnabled, accumulator, frameCount, eventListeners,
          grid, saved, game, otherBodies, pc, subSteps, alpha, lastCall, entryAccumulator, frameAtEntry,
          stepCalls, failed, emitted, trace, lastEmit>>

Bodies == 1..Len(heap)

Call(method, body) == [method |-> method, body |-> body]

\* the context at the start of a client call
CallCtx == [listeners |-> eventListeners, emitted |-> NoEmits, trace |-> << >>,
            lastEmit |-> lastEmit, thrown |-> FALSE]

\* the context inside update()/step()
StepCtx == [listeners |-> eventListeners, emitted |-> emitted, trace |-> trace,
            lastEmit |-> lastEmit, thrown |-> FALSE]

SetCtx(c) ==
    /\ eventListeners' = c.listeners
    /\ emitted' = c.emitted
    /\ trace' = c.trace
    /\ lastEmit' = c.lastEmit
    /\ failed' = c.thrown

Enter(c, phase) == [c EXCEPT !.trace = Append(@, phase)]

DefaultBounds == [left |-> 0 - 1000000, right |-> 1000000,
                  top |-> 1000000, bottom |-> 0 - 1000000]

\* ------------------------------------------------------------------------
\* Client calls (the engine is not inside update())
\* ------------------------------------------------------------------------

MaxHeap == 2

MaxForces == 2

\* addBody without the includes() test
addBodyUnchecked(bs, c, b) ==
    [bodies |-> Append(bs, b), ctx |-> doEmitData(c, "bodyAdded", <<b>>)]

\* addBody(body) on the body list bs with context c
addBody(bs, c, b) ==
    IF SeqContains(bs, b) THEN [bodies |-> bs, ctx |-> c]
    ELSE [bodies |-> Append(bs, b), ctx |-> doEmitData(c, "bodyAdded", <<b>>)]

\* removeBody(body)
removeBody(bs, c, b) ==
    LET index == IndexOf(bs, b)
    IN  IF index # 0
        THEN [bodies |-> RemoveAt(bs, index), ctx |-> doEmitData(c, "bodyRemoved", <<b>>)]
        ELSE [bodies |-> bs, ctx |-> c]

\* body = new RigidBody(o)
CreateBody(o) ==
    /\ pc = "idle"
    /\ Len(heap) < MaxHeap
    /\ heap' = Append(heap, RigidBody(o))
    /\ lastCall' = Call("new", Len(heap) + 1)
    /\ SetCtx(CallCtx)
    /\ UNCHANGED <<bodies, forces, gravity, airDensity, bounds, grid, saved, game, otherBodies, pc>>
    /\ UNCHANGED <<clockVars, flagVars, loopVars>>

AddBody(b) ==
    /\ pc = "idle"
    /\ LET r == addBody(bodies, CallCtx, b)
       IN  bodies' = r.bodies /\ SetCtx(r.ctx)
    /\ lastCall' = Call("addBody", b)
    /\ UNCHANGED <<heap, forces, gravity, airDensity, bounds, grid, saved, game, otherBodies, pc>>
    /\ UNCHANGED <<clockVars, flagVars, loopVars>>

RemoveBody(b) ==
    /\ pc = "idle"
    /\ LET r == removeBody(bodies, CallCtx, b)
       IN  bodies' = r.bodies /\ SetCtx(r.ctx)
    /\ lastCall' = Call("removeBody", b)
    /\ UNCHANGED <<heap, forces, gravity, airDensity, bounds, grid, saved, game, otherBodies, pc>>
    /\ UNCHANGED <<clockVars, flagVars, loopVars>>

\* clear()
Clear ==
    /\ pc = "idle"
    /\ bodies' = << >>
    /\ forces' = << >>
    /\ SetCtx(doEmit(CallCtx, "worldCleared"))
    /\ lastCall' = Call("clear", 0)
    /\ UNCHANGED <<heap, gravity, airDensity, bounds, grid, saved, game, otherBodies, pc>>
    /\ UNCHANGED <<clockVars, flagVars, loopVars>>

\* saved = engine.serialize()
Serialize ==
    /\ pc = "idle"
    /\ saved' = << [gravity |-> gravity, airDensity |-> airDensity,
                    timeScale |-> timeScale, bounds |-> bounds,
                    bodies |-> [i \in 1..Len(bodies) |-> toJSON(heap[bodies[i]])]] >>
    /\ lastCall' = Call("serialize", 0)
    /\ UNCHANGED <<otherBodies, grid, game>>
    /\ SetCtx(CallCtx)
    /\ UNCHANGED <<heap, bodies, forces, gravity, airDensity, bounds, pc>>
    /\ UNCHANGED <<clockVars, flagVars, loopVars>>

\* the loop of deserialize over data.bodies; st = [heap, bodies, ctx]
RECURSIVE LoadBodies(_, _, _)
LoadBodies(st, datas, i) ==
    IF i > Len(datas) \/ st.ctx.thrown THEN st
    ELSE LET h1 == Append(st.heap, fromJSON(datas[i]))
             r  == addBody(st.bodies, st.ctx, Len(h1))
         IN  LoadBodies([heap |-> h1, bodies |-> r.bodies, ctx |-> r.ctx], datas, i + 1)

\* engine.deserialize(saved)
Deserialize ==
    /\ pc = "idle"
    /\ saved # << >>
    /\ Len(heap) + Len(saved[1].bodies) <= MaxHeap
    /\ LET data == saved[1]
           c    == doEmit(CallCtx, "worldCleared")
           st   == LoadBodies([heap |-> heap, bodies |-> << >>, ctx |-> c], data.bodies, 1)
       IN  /\ heap' = st.heap
           /\ bodies' = st.bodies
           /\ SetCtx(st.ctx)
           /\ forces' = << >>
           /\ IF c.thrown
              THEN UNCHANGED <<gravity, airDensity, timeScale, bounds>>
              ELSE /\ gravity' = data.gravity
                   /\ airDensity' = data.airDensity
                   /\ timeScale' = data.timeScale
                   /\ bounds' = data.bounds
    /\ lastCall' = Call("deserialize", 0)
    /\ UNCHANGED <<grid, saved, game, otherBodies, pc, paused, accumulator, frameCount>>
    /\ UNCHANGED <<flagVars, loopVars>>

\* heap[b].applyForce(f)
ApplyForce(b, f) ==
    /\ pc = "idle"
    /\ Len(heap[b].forces) < MaxForces
    /\ heap' = [heap EXCEPT ![b] = applyForce(@, f)]
    /\ lastCall' = Call("applyForce", b)
    /\ SetCtx(CallCtx)
    /\ UNCHANGED <<bodies, forces, gravity, airDensity, bounds, grid, saved, game, otherBodies, pc>>
    /\ UNCHANGED <<clockVars, flagVars, loopVars>>

\* heap[b].applyImpulse(j)
ApplyImpulse(b, j) ==
    /\ pc = "idle"
    /\ heap' = [heap EXCEPT ![b] = applyImpulse(@, j)]
    /\ lastCall' = Call("applyImpulse", b)
    /\ SetCtx(CallCtx)
    /\ UNCHANGED <<bodies, forces, gravity, airDensity, bounds, grid, saved, game, otherBodies, pc>>
    /\ UNCHANGED <<clockVars, flagVars, loopVars>>

\* heap[b].applyTorque(t)
ApplyTorque(b, t) ==
    /\ pc = "idle"
    /\ heap' = [heap EXCEPT ![b] = applyTorque(@, t)]
    /\ lastCall' = Call("applyTorque", b)
    /\ SetCtx(CallCtx)
    /\ UNCHANGED <<bodies, forces, gravity, airDensity, bounds, grid, saved, game, otherBodies, pc>>
    /\ UNCHANGED <<clockVars, flagVars, loopVars>>

\* heap[a].resolveCollision(heap[b], contact), called by the client
ResolveCollision(a, b, contact) ==
    /\ pc = "idle"
    /\ a # b
    /\ heap' = resolveCollision(heap, a, b, contact)
    /\ lastCall' = Call("resolveCollision", a)
    /\ SetCtx(CallCtx)
    /\ UNCHANGED <<bodies, forces, gravity, airDensity, bounds, grid, saved, game, otherBodies, pc>>
    /\ UNCHANGED <<clockVars, flagVars, loopVars>>

\* heap[b].calculateNetForce()
CalculateNetForce(b) ==
    /\ pc = "idle"
    /\ heap' = [heap EXCEPT ![b] = calculateNetForce(@)]
    /\ lastCall' = Call("calculateNetForce", b)
    /\ SetCtx(CallCtx)
    /\ UNCHANGED <<bodies, forces, gravity, airDensity, bounds, grid, saved, game, otherBodies, pc>>
    /\ UNCHANGED <<clockVars, flagVars, loopVars>>

\* heap[b].integrate(dt)
Integrate(b, dt) ==
    /\ pc = "idle"
    /\ heap' = [heap EXCEPT ![b] = integrate(@, dt)]
    /\ lastCall' = Call("integrate", b)
    /\ SetCtx(CallCtx)
    /\ UNCHANGED <<bodies, forces, gravity, airDensity, bounds, grid, saved, game, otherBodies, pc>>
    /\ UNCHANGED <<clockVars, flagVars, loopVars>>

\* a client call with the value it returned
Returned(method, body, value) == [method |-> method, body |-> body, returned |-> value]

\* the place in bs of the first body whose getBounds() throws; 0 if there is none
Boundless(h, bs) ==
    IF \E i \in 1..Len(bs) : getBoundsCall(h[bs[i]], 1).thrown
    THEN CHOOSE i \in 1..Len(bs) :
             /\ getBoundsCall(h[bs[i]], 1).thrown
             /\ \A j \in 1..(i - 1) : ~getBoundsCall(h[bs[j]], 1).thrown
    ELSE 0

\* body.getBounds(), called by the client
GetBounds(b) ==
    /\ pc = "idle"
    /\ lastCall' = Returned("getBounds", b, getBoundsCall(heap[b], 1).box)
    /\ SetCtx([CallCtx EXCEPT !.thrown = getBoundsCall(heap[b], 1).thrown])
    /\ UNCHANGED worldVars
    /\ UNCHANGED <<pc, clockVars, flagVars, loopVars>>

\* collisionDetection.detectCollisions(engine.bodies)
DetectCollisions ==
    /\ pc = "idle"
    /\ heap' = ResetCollisionState(heap, bodies)
    /\ IF Boundless(heap, bodies) = 0
       THEN /\ grid' = GridOf(heap, bodies)
            /\ lastCall' = Returned("detectCollisions", 0, detectCollisions(heap', bodies))
            /\ SetCtx(CallCtx)
       ELSE \* spatialGrid.insert(body) calls body.getBounds(), which throws
            /\ grid' = GridOf(heap, SubSeq(bodies, 1, Boundless(heap, bodies) - 1))
            /\ lastCall' = Returned("detectCollisions", 0, << >>)
            /\ SetCtx([CallCtx EXCEPT !.thrown = TRUE])
    /\ UNCHANGED <<bodies, forces, gravity, airDensity, bounds, saved, game, otherBodies, pc>>
    /\ UNCHANGED <<clockVars, flagVars, loopVars>>

\* engine.enforceBounds(), called by the client
EnforceBoundsCall ==
    /\ pc = "idle"
    /\ LET st == enforceBounds([heap |-> heap, ctx |-> CallCtx], bodies, 1, bounds)
       IN  heap' = st.heap /\ SetCtx(st.ctx)
    /\ lastCall' = Call("enforceBounds", 0)
    /\ UNCHANGED <<bodies, forces, gravity, airDensity, bounds, grid, saved, game, otherBodies, pc>>
    /\ UNCHANGED <<clockVars, flagVars, loopVars>>

\* engine.handleCollisions(), called by the client
HandleCollisionsCall ==
    /\ pc = "idle"
    /\ LET st == handleCollisions(heap, bodies, CallCtx)
       IN  heap' = st.heap /\ SetCtx(st.ctx)
    /\ grid' = GridOf(heap, bodies)
    /\ lastCall' = Call("handleCollisions", 0)
    /\ UNCHANGED <<bodies, forces, gravity, airDensity, bounds, saved, game, otherBodies, pc>>
    /\ UNCHANGED <<clockVars, flagVars, loopVars>>

\* body.restitution = restitution; body.friction = friction
SetSurface(b, restitution, friction) ==
    /\ pc = "idle"
    /\ heap' = [heap EXCEPT ![b].restitution = restitution, ![b].friction = friction]
    /\ lastCall' = Call("setSurface", b)
    /\ SetCtx(CallCtx)
    /\ UNCHANGED <<bodies, forces, gravity, airDensity, bounds, grid, saved, game, otherBodies, pc>>
    /\ UNCHANGED <<clockVars, flagVars, loopVars>>

\* collisionDetection.broadPhase(engine.bodies), after detectCollisions has
\* cleared the grid and inserted every body
BroadPhaseCall ==
    /\ pc = "idle"
    /\ lastCall' = Returned("broadPhase", 0, broadPhase(heap, bodies))
    /\ SetCtx(CallCtx)
    /\ UNCHANGED <<heap, bodies, forces, gravity, airDensity, bounds, grid, saved, game, otherBodies, pc>>
    /\ UNCHANGED <<clockVars, flagVars, loopVars>>

\* ------------------------------------------------------------------------
\* CollisionDetection: raycasting.  A hit is [hit, body, point, normal,
\* distance, nan]; nan tells that the distance and the point are NaN.
\* ------------------------------------------------------------------------

Infinity == 2000000000

NoHit == [hit |-> FALSE, body |-> 0, point |-> VZero, normal |-> VZero,
          distance |-> 0, nan |-> FALSE]

Hit(b, point, normal, distance) ==
    [hit |-> TRUE, body |-> b, point |-> point, normal |-> normal,
     distance |-> distance, nan |-> FALSE]

\* raycastCircle(origin, direction, circle, maxDistance); c is the heap index
raycastCircle(h, origin, direction, c, maxDistance) ==
    LET toCircle == VSub(h[c].position, origin)
        projectionLength == VDot(toCircle, direction)
        closestPoint == VAdd(origin, VMul(direction, projectionLength))
        distanceToCenter == VDistance(h[c].position, closestPoint)
        halfChord == FSqrt(FMul(h[c].radius, h[c].radius)
                           - FMul(distanceToCenter, distanceToCenter))
        intersectionDistance == projectionLength - halfChord
        hitPoint == VAdd(origin, VMul(direction, intersectionDistance))
    IN  IF projectionLength < 0 THEN NoHit
        ELSE IF distanceToCenter > h[c].radius THEN NoHit
        ELSE IF intersectionDistance < 0 \/ intersectionDistance > maxDistance THEN NoHit
        ELSE Hit(c, hitPoint, VNormalize(VSub(hitPoint, h[c].position)),
                 intersectionDistance)

\* a / b as raycastRectangle computes it: +-Infinity for a division of a
\* non-zero number by 0
RayDiv(a, b) ==
    IF b # 0 THEN FDiv(a, b)
    ELSE IF a > 0 THEN Infinity ELSE 0 - Infinity

\* the face normal raycastRectangle picks for the hit point
FaceNormal(hitPoint, box) ==
    IF Abs(hitPoint.x - box.left) < 1 THEN Vec(0 - Scale, 0)
    ELSE IF Abs(hitPoint.x - box.right) < 1 THEN Vec(Scale, 0)
    ELSE IF Abs(hitPoint.y - box.bottom) < 1 THEN Vec(0, 0 - Scale)
    ELSE Vec(0, Scale)

\* the rest of raycastRectangle once tNear and tFar are known
SlabHit(origin, direction, r, box, tNear, tFar, maxDistance) ==
    IF tNear > tFar \/ tNear < 0 \/ tNear > maxDistance THEN NoHit
    ELSE Hit(r, VAdd(origin, VMul(direction, tNear)),
             FaceNormal(VAdd(origin, VMul(direction, tNear)), box), tNear)

\* raycastRectangle(origin, direction, rectangle, maxDistance).  A 0 / 0 among
\* the four divisions is NaN and makes tNear and tFar NaN: every test of the
\* early return is then false and the hit has distance NaN and normal (0,1)
raycastRectangle(h, origin, direction, r, maxDistance) ==
    LET box == getBounds(h[r])   \* const bounds
        tMin  == RayDiv(box.left - origin.x, direction.x)
        tMax  == RayDiv(box.right - origin.x, direction.x)
        tyMin == RayDiv(box.bottom - origin.y, direction.y)
        tyMax == RayDiv(box.top - origin.y, direction.y)
        isNaN == \/ direction.x = 0 /\ (box.left = origin.x \/ box.right = origin.x)
                 \/ direction.y = 0 /\ (box.bottom = origin.y \/ box.top = origin.y)
    IN  IF isNaN
        THEN [Hit(r, VZero, Vec(0, Scale), 0) EXCEPT !.nan = TRUE]
        ELSE SlabHit(origin, direction, r, box,
                     Max2(Min2(tMin, tMax), Min2(tyMin, tyMax)),
                     Min2(Max2(tMin, tMax), Max2(tyMin, tyMax)), maxDistance)

raycastBody(h, origin, direction, b, maxDistance) ==
    IF h[b].shape = "circle" THEN raycastCircle(h, origin, direction, b, maxDistance)
    ELSE IF h[b].shape = "rectangle"
    THEN raycastRectangle(h, origin, direction, b, maxDistance)
    ELSE NoHit

\* hit && hit.distance < closestDistance
Closer(hit, closestDistance) == hit.hit /\ ~hit.nan /\ hit.distance < closestDistance

\* one turn of the loop of raycast for the hit of the body
Closest(hit, closestHit) ==
    IF Closer(hit, IF closestHit.hit THEN closestHit.distance ELSE closestHit.limit)
    THEN hit ELSE closestHit

\* the loop of raycast; closestHit carries maxDistance as its limit until a
\* hit replaces it
RECURSIVE RaycastLoop(_, _, _, _, _, _)
RaycastLoop(h, origin, direction, bs, i, closestHit) ==
    IF i > Len(bs) THEN closestHit
    ELSE RaycastLoop(h, origin, direction, bs, i + 1,
            Closest(raycastBody(h, origin, direction, bs[i],
                                IF closestHit.hit THEN closestHit.distance
                                ELSE closestHit.limit),
                    closestHit))

\* raycast(origin, direction, maxDistance, bodies)
raycast(h, origin, direction, maxDistance, bs) ==
    LET found == RaycastLoop(h, origin, direction, bs, 1,
                             [hit |-> FALSE, limit |-> maxDistance])
    IN  IF found.hit THEN found ELSE NoHit

\* engine.raycast(origin, direction, maxDistance)
Raycast(origin, direction, maxDistance) ==
    /\ pc = "idle"
    /\ lastCall' = [method |-> "raycast", body |-> 0,
                    origin |-> origin, direction |-> direction,
                    maxDistance |-> maxDistance,
                    returned |-> raycast(heap, origin, direction, maxDistance, bodies)]
    /\ SetCtx(CallCtx)
    /\ UNCHANGED <<heap, bodies, forces, gravity, airDensity, bounds, grid, saved, game, otherBodies, pc>>
    /\ UNCHANGED <<clockVars, flagVars, loopVars>>

\* the context of a call on the second engine, which has no listeners
OtherCtx == [CallCtx EXCEPT !.listeners = [e \in EventNames |-> << >>]]

\* otherEngine.addBody(heap[b])
OtherAddBody(b) ==
    /\ pc = "idle"
    /\ otherBodies' = addBody(otherBodies, OtherCtx, b).bodies
    /\ lastCall' = Call("other.addBody", b)
    /\ SetCtx(CallCtx)
    /\ UNCHANGED <<heap, bodies, forces, gravity, airDensity, bounds, grid, saved, game, pc>>
    /\ UNCHANGED <<clockVars, flagVars, loopVars>>

\* otherEngine.removeBody(heap[b])
OtherRemoveBody(b) ==
    /\ pc = "idle"
    /\ otherBodies' = removeBody(otherBodies, OtherCtx, b).bodies
    /\ lastCall' = Call("other.removeBody", b)
    /\ SetCtx(CallCtx)
    /\ UNCHANGED <<heap, bodies, forces, gravity, airDensity, bounds, grid, saved, game, pc>>
    /\ UNCHANGED <<clockVars, flagVars, loopVars>>

\* engine.collisionDetection.raycast(origin, direction, maxDistance): without
\* a bodies argument the ray is cast against spatialGrid.getAllBodies()
GridRaycast(origin, direction, maxDistance) ==
    /\ pc = "idle"
    /\ lastCall' = [method |-> "collisionDetection.raycast", body |-> 0,
                    origin |-> origin, direction |-> direction,
                    maxDistance |-> maxDistance,
                    returned |-> raycast(heap, origin, direction, maxDistance,
                                         getAllBodies(grid, 1, << >>))]
    /\ SetCtx(CallCtx)
    /\ UNCHANGED <<heap, bodies, forces, gravity, airDensity, bounds, grid, saved, game,
                   otherBodies, pc>>
    /\ UNCHANGED <<clockVars, flagVars, loopVars>>

\* ------------------------------------------------------------------------
\* LevelManager and GameManager: loading levels
\* ------------------------------------------------------------------------

\* an obstacle of a level as the options createLevelEntities passes
Obstacle(x, y, shape, width, height, radius, material) ==
    [NoOptions EXCEPT !.position = Vec(x, y), !.shape = shape, !.width = width,
                      !.height = height, !.radius = radius, !.isStatic = TRUE,
                      !.material = material]

\* initializeLevels(): gravity, airDensity, number of objectives, start
\* positions and obstacles of the five levels
Levels ==
    << [gravity |-> Vec(0, 0 - 1620), airDensity |-> 0, objectives |-> 2,
        playerStart |-> Vec(100000, 100000), escapistStart |-> Vec(700000, 500000),
        obstacles |-> << Obstacle(400000, 50000, "rectangle", 200000, 20000, 0, "rock"),
                         Obstacle(200000, 200000, "rectangle", 100000, 20000, 0, "rock") >>],
       [gravity |-> Vec(0, 0 - 3710), airDensity |-> 20, objectives |-> 3,
        playerStart |-> Vec(80000, 150000), escapistStart |-> Vec(600000, 300000),
        obstacles |-> << Obstacle(300000, 100000, "circle", 0, 0, 30000, "rock"),
                         Obstacle(500000, 200000, "rectangle", 80000, 120000, 0, "rock"),
                         Obstacle(400000, 400000, "rectangle", 150000, 30000, 0, "metal") >>],
       [gravity |-> Vec(0, 0 - 13100), airDensity |-> 0, objectives |-> 3,
        playerStart |-> Vec(50000, 200000), escapistStart |-> Vec(750000, 100000),
        obstacles |-> << Obstacle(200000, 50000, "rectangle", 400000, 20000, 0, "ice"),
                         Obstacle(600000, 150000, "rectangle", 20000, 100000, 0, "ice"),
                         Obstacle(350000, 300000, "circle", 0, 0, 40000, "ice") >>],
       [gravity |-> ZERO_GRAVITY, airDensity |-> 0, objectives |-> 3,
        playerStart |-> Vec(100000, 300000), escapistStart |-> Vec(700000, 300000),
        obstacles |-> << Obstacle(300000, 200000, "circle", 0, 0, 25000, "metal"),
                         Obstacle(500000, 350000, "circle", 0, 0, 30000, "metal"),
                         Obstacle(400000, 100000, "rectangle", 60000, 60000, 0, "metal") >>],
       [gravity |-> GRAVITY_EARTH, airDensity |-> 1225, objectives |-> 3,
        playerStart |-> Vec(100000, 400000), escapistStart |-> Vec(600000, 100000),
        obstacles |-> << Obstacle(300000, 50000, "rectangle", 20000, 200000, 0, "wood"),
                         Obstacle(500000, 200000, "rectangle", 100000, 20000, 0, "metal"),
                         Obstacle(200000, 350000, "circle", 0, 0, 20000, "rubber") >>] >>

\* LevelManager.currentLevel = null
NoLevel == 0 - 1

\* new GameManager() with its new LevelManager(): currentLevel is a level
\* index, objectives the completed flags of currentObjectives,
\* completedObjectives the objectives completed in order, levelLoaded the
\* number of 'levelLoaded' events emitted
NewGame ==
    [currentLevel |-> 0, physicsObjects |-> << >>, player |-> 0, escapist |-> 0,
     levelLoaded |-> 0,
     levelManager |-> [currentLevel |-> NoLevel, objectives |-> << >>,
                       completedObjectives |-> << >>, accuracy |-> Scale,
                       attempts |-> 0, levelLoaded |-> 0]]

InRange(levelIndex) == levelIndex >= 0 /\ levelIndex < Len(Levels)

\* LevelManager.loadLevel(levelIndex): the manager afterwards and what it returns
loadLevel(lm, levelIndex) ==
    IF ~InRange(levelIndex) THEN [levelManager |-> lm, returned |-> NoLevel]
    ELSE [levelManager |->
              [currentLevel |-> levelIndex,
               objectives |-> [k \in 1..Levels[levelIndex + 1].objectives |-> FALSE],
               completedObjectives |-> << >>,
               accuracy |-> Scale,
               attempts |-> 0,
               levelLoaded |-> lm.levelLoaded + 1],
          returned |-> levelIndex]

\* LevelManager.updateAccuracy()
updateAccuracy(lm) ==
    [lm EXCEPT !.attempts = @ + 1,
               !.accuracy = Max2(0, FDiv(Len(lm.completedObjectives) * Scale,
                                         Len(lm.objectives) * Scale)
                                    - Max2(0, lm.attempts * 100))]

\* checkObjectives() when isObjectiveComplete holds for objective k alone
checkObjectives(lm, k) ==
    IF lm.objectives[k] THEN lm
    ELSE updateAccuracy([lm EXCEPT !.objectives[k] = TRUE,
                                    !.completedObjectives = Append(@, k)])

\* the options of new Player(start).body and new Escapist(start).body
PlayerBody(start) ==
    [NoOptions EXCEPT !.position = start, !.radius = 20000, !.mass = 2 * Scale,
                      !.restitution = 600, !.friction = 300]

EscapistBody(start) ==
    [NoOptions EXCEPT !.position = start, !.radius = 25000, !.mass = Scale,
                      !.restitution = 900, !.friction = 100]

\* the random id the constructor gives the k-th body created
FreshId(k) == <<48 + k>>

WithFreshIds(os, first) == [k \in 1..Len(os) |-> [os[k] EXCEPT !.id = FreshId(first + k)]]

\* levelManager.loadLevel(levelIndex), called by the client
LevelLoadLevel(levelIndex) ==
    /\ pc = "idle"
    /\ game' = [game EXCEPT !.levelManager = loadLevel(@, levelIndex).levelManager]
    /\ lastCall' = [method |-> "levelManager.loadLevel", body |-> 0,
                    levelIndex |-> levelIndex,
                    returned |-> loadLevel(game.levelManager, levelIndex).returned]
    /\ SetCtx(CallCtx)
    /\ UNCHANGED <<heap, bodies, forces, gravity, airDensity, bounds, grid, saved,
                   otherBodies, pc>>
    /\ UNCHANGED <<clockVars, flagVars, loopVars>>

\* levelManager.update(dt) in which objective k is found complete
CompleteObjective(k) ==
    /\ pc = "idle"
    /\ game.levelManager.currentLevel # NoLevel
    /\ k \in 1..Len(game.levelManager.objectives)
    /\ game' = [game EXCEPT !.levelManager = checkObjectives(@, k)]
    /\ lastCall' = Call("levelManager.update", 0)
    /\ SetCtx(CallCtx)
    /\ UNCHANGED <<heap, bodies, forces, gravity, airDensity, bounds, grid, saved,
                   otherBodies, pc>>
    /\ UNCHANGED <<clockVars, flagVars, loopVars>>

\* createLevelEntities(levelData) after clear(): the player, the escapist and
\* the obstacles are created and the obstacles are added to the engine
LevelEntities(h, c, level) ==
    LoadBodies([heap |-> h \o << RigidBody([PlayerBody(level.playerStart)
                                             EXCEPT !.id = FreshId(Len(h) + 1)]),
                                 RigidBody([EscapistBody(level.escapistStart)
                                             EXCEPT !.id = FreshId(Len(h) + 2)]) >>,
                bodies |-> << >>, ctx |-> c],
               WithFreshIds(level.obstacles, Len(h) + 2), 1)

\* what gameManager.loadLevel(levelIndex) leaves when the level was found
LevelStarted(levelIndex, level, st) ==
    /\ heap' = st.heap
    /\ bodies' = st.bodies
    /\ SetCtx(st.ctx)
    /\ gravity' = level.gravity
    /\ airDensity' = level.airDensity
    /\ game' = [currentLevel |-> levelIndex, physicsObjects |-> << >>,
                player |-> Len(heap) + 1, escapist |-> Len(heap) + 2,
                levelLoaded |-> game.levelLoaded + 1,
                levelManager |-> loadLevel(game.levelManager, levelIndex).levelManager]

\* gameManager.loadLevel(levelIndex)
GameLoadLevel(levelIndex) ==
    /\ pc = "idle"
    /\ forces' = << >>
    /\ IF InRange(levelIndex)
       THEN LevelStarted(levelIndex, Levels[levelIndex + 1],
                         LevelEntities(heap, doEmit(CallCtx, "worldCleared"),
                                       Levels[levelIndex + 1]))
       ELSE /\ bodies' = << >>
            /\ SetCtx(doEmit(CallCtx, "worldCleared"))
            /\ game' = [game EXCEPT !.currentLevel = levelIndex,
                                    !.physicsObjects = << >>]
            /\ UNCHANGED <<heap, gravity, airDensity>>
    /\ lastCall' = [method |-> "gameManager.loadLevel", body |-> 0,
                    levelIndex |-> levelIndex]
    /\ UNCHANGED <<bounds, grid, saved, otherBodies, pc>>
    /\ UNCHANGED <<clockVars, flagVars, loopVars>>

\* engine.on(event, callback)
On(event, callback) ==
    /\ pc = "idle"
    /\ Len(eventListeners[event]) < MaxListeners
    /\ SetCtx([CallCtx EXCEPT !.listeners = on(eventListeners, event, callback)])
    /\ lastCall' = Call("on", 0)
    /\ UNCHANGED <<worldVars, clockVars, flagVars, loopVars, pc>>

\* engine.off(event, callback)
Off(event, callback) ==
    /\ pc = "idle"
    /\ SetCtx([CallCtx EXCEPT !.listeners = off(eventListeners, event, callback)])
    /\ lastCall' = Call("off", 0)
    /\ UNCHANGED <<worldVars, clockVars, flagVars, loopVars, pc>>

\* pause()
Pause ==
    /\ pc = "idle"
    /\ paused' = TRUE
    /\ SetCtx(doEmit(CallCtx, "paused"))
    /\ lastCall' = Call("pause", 0)
    /\ UNCHANGED <<worldVars, timeScale, accumulator, frameCount, flagVars, loopVars, pc>>

\* resume()
Resume ==
    /\ pc = "idle"
    /\ paused' = FALSE
    /\ SetCtx(doEmit(CallCtx, "resumed"))
    /\ lastCall' = Call("resume", 0)
    /\ UNCHANGED <<worldVars, timeScale, accumulator, frameCount, flagVars, loopVars, pc>>

\* setTimeScale(scale)
SetTimeScale(scale) ==
    /\ pc = "idle"
    /\ timeScale' = Max2(0, scale)
    /\ SetCtx(doEmit(CallCtx, "timeScaleChanged"))
    /\ lastCall' = Call("setTimeScale", 0)
    /\ UNCHANGED <<worldVars, paused, accumulator, frameCount, flagVars, loopVars, pc>>

\* ------------------------------------------------------------------------
\* update(deltaTime) and step(fixedTimeStep)
\* ------------------------------------------------------------------------

\* deltaTime *= this.timeScale
ScaledDelta(dt, scale) == RDiv(dt * scale, Scale)

\* the loop condition with the sub-step cap off by one
ContinueSteppingOffByOne(acc, n) == acc >= FixedTimeStep /\ n <= MaxSubSteps

\* the condition of the while loop of update()
ContinueStepping(acc, n) == acc >= FixedTimeStep /\ n < MaxSubSteps

\* const alpha = this.accumulator / this.fixedTimeStep
Alpha(acc) == RDiv(acc * Scale, FixedTimeStep)

\* update(dt) with the paused test after the accumulation: a mutant of Update
UpdateAccumulatesPaused(dt) ==
    /\ pc = "idle"
    /\ lastCall' = Call("update", 0)
    /\ SetCtx(CallCtx)
    /\ accumulator' = accumulator + ScaledDelta(dt, timeScale)
    /\ IF paused
       THEN /\ alpha' = [defined |-> FALSE, value |-> 0]
            /\ UNCHANGED <<pc, subSteps, entryAccumulator, frameAtEntry, stepCalls>>
       ELSE /\ entryAccumulator' = accumulator'
            /\ frameAtEntry' = frameCount
            /\ subSteps' = 0
            /\ stepCalls' = 0
            /\ pc' = "update"
            /\ UNCHANGED alpha
    /\ UNCHANGED <<worldVars, timeScale, paused, frameCount, flagVars>>

\* update(dt): the paused return, or the accumulation before the loop
Update(dt) ==
    /\ pc = "idle"
    /\ lastCall' = Call("update", 0)
    /\ SetCtx(CallCtx)
    /\ IF paused
       THEN /\ alpha' = [defined |-> FALSE, value |-> 0]
            /\ UNCHANGED <<accumulator, pc, subSteps, entryAccumulator, frameAtEntry,
                           stepCalls>>
       ELSE /\ accumulator' = accumulator + ScaledDelta(dt, timeScale)
            /\ entryAccumulator' = accumulator'
            /\ frameAtEntry' = frameCount
            /\ subSteps' = 0
            /\ stepCalls' = 0
            /\ pc' = "update"
            /\ UNCHANGED alpha
    /\ UNCHANGED <<worldVars, timeScale, paused, frameCount, flagVars>>

\* the test of the while loop: call step(), or compute alpha and return
LoopTest ==
    /\ pc = "update"
    /\ IF ContinueStepping(accumulator, subSteps)
       THEN /\ pc' = "applyGlobalForces"
            /\ stepCalls' = stepCalls + 1
            /\ trace' = << >>
            /\ UNCHANGED alpha
       ELSE /\ pc' = "idle"
            /\ alpha' = [defined |-> TRUE, value |-> Alpha(accumulator)]
            /\ UNCHANGED <<stepCalls, trace>>
    /\ UNCHANGED <<worldVars, clockVars, flagVars, subSteps, entryAccumulator,
                   frameAtEntry, lastCall, failed, eventListeners, emitted, lastEmit>>

ApplyGlobalForces ==
    /\ pc = "applyGlobalForces"
    /\ heap' = applyGlobalForces(heap, bodies, 1, gravity, forces, airDensity)
    /\ trace' = Append(trace, "applyGlobalForces")
    /\ pc' = NextPhase("applyGlobalForces", enableCollisions, boundsEnabled)
    /\ UNCHANGED <<bodies, forces, gravity, airDensity, bounds, grid, saved, game, otherBodies>>
    /\ UNCHANGED <<clockVars, flagVars, loopVars, lastCall, failed, eventListeners,
                   emitted, lastEmit>>

\* engine.constraints is empty: no method of the engine ever adds a constraint
SolveConstraints ==
    /\ pc = "solveConstraints"
    /\ trace' = Append(trace, "solveConstraints")
    /\ pc' = NextPhase("solveConstraints", enableCollisions, boundsEnabled)
    /\ UNCHANGED <<worldVars, clockVars, flagVars, loopVars, lastCall, failed,
                   eventListeners, emitted, lastEmit>>

IntegrateBodies ==
    /\ pc = "integrateBodies"
    /\ heap' = integrateBodies(heap, bodies, 1, FixedTimeStep)
    /\ trace' = Append(trace, "integrateBodies")
    /\ pc' = NextPhase("integrateBodies", enableCollisions, boundsEnabled)
    /\ UNCHANGED <<bodies, forces, gravity, airDensity, bounds, grid, saved, game, otherBodies>>
    /\ UNCHANGED <<clockVars, flagVars, loopVars, lastCall, failed, eventListeners,
                   emitted, lastEmit>>

\* a phase that emits events leaves st = [heap, ctx]; an exception out of a
\* listener ends step() and update()
AfterPhase(st, phase) ==
    /\ heap' = st.heap
    /\ SetCtx(st.ctx)
    /\ pc' = IF st.ctx.thrown THEN "idle"
             ELSE NextPhase(phase, enableCollisions, boundsEnabled)

HandleCollisions ==
    /\ pc = "handleCollisions"
    /\ AfterPhase(handleCollisions(heap, bodies, Enter(StepCtx, "handleCollisions")),
                  "handleCollisions")
    /\ grid' = GridOf(heap, bodies)
    /\ UNCHANGED <<bodies, forces, gravity, airDensity, bounds, saved, game, otherBodies>>
    /\ UNCHANGED <<clockVars, flagVars, loopVars, lastCall>>

EnforceBounds ==
    /\ pc = "enforceBounds"
    /\ AfterPhase(enforceBounds([heap |-> heap, ctx |-> Enter(StepCtx, "enforceBounds")],
                                bodies, 1, bounds),
                  "enforceBounds")
    /\ UNCHANGED <<bodies, forces, gravity, airDensity, bounds, grid, saved, game, otherBodies>>
    /\ UNCHANGED <<clockVars, flagVars, loopVars, lastCall>>

\* the end of step(): emit('step'), frameCount++; then the loop body's
\* accumulator -= fixedTimeStep, subSteps++
EmitStep ==
    /\ pc = "emitStep"
    /\ LET c == doEmitData(StepCtx, "step", bodies)
       IN  /\ SetCtx(c)
           /\ IF c.thrown
              THEN /\ pc' = "idle"
                   /\ UNCHANGED <<frameCount, accumulator, subSteps>>
              ELSE /\ pc' = "update"
                   /\ frameCount' = frameCount + 1
                   /\ accumulator' = accumulator - FixedTimeStep
                   /\ subSteps' = subSteps + 1
    /\ UNCHANGED <<worldVars, timeScale, paused, flagVars, alpha, entryAccumulator,
                   frameAtEntry, stepCalls, lastCall>>

\* the engine's own progress inside update()
Stepping ==
    \/ LoopTest
    \/ ApplyGlobalForces
    \/ SolveConstraints
    \/ IntegrateBodies
    \/ HandleCollisions
    \/ EnforceBounds
    \/ EmitStep

\* ------------------------------------------------------------------------
\* Spec: the game loop.  A world of three bodies is stepped by update() calls
\* of varying deltaTime, with pause/resume and time scaling in between.
\* ------------------------------------------------------------------------

MaxFrames == 6

MaxAccumulator == 24

DeltaTimes == {0, 1, 3, 18}

TimeScales == {0, Scale, 2 * Scale}

\* a static ground plate, a ball resting 0.001 into it, and a ball that has
\* left the world on the left and moves further out
GroundOptions ==
    [NoOptions EXCEPT !.id = <<103>>, !.position = Vec(0, 0), !.shape = "rectangle",
                      !.width = 200000, !.height = 20000, !.isStatic = TRUE]

BallOptions ==
    [NoOptions EXCEPT !.id = <<97>>, !.position = Vec(0, 19999), !.mass = 1000]

StrayOptions ==
    [NoOptions EXCEPT !.id = <<98>>, !.position = Vec(0 - 95000, 50000),
                      !.velocity = Vec(0 - 3000, 0), !.mass = 2000]

LoopBounds == [left |-> 0 - 100000, right |-> 100000,
               top |-> 100000, bottom |-> 0 - 100000]

\* the listener lists the client registered before the loop starts
LoopListeners == { << >>, <<"plain">>, <<"thrower", "plain">> }

Fresh ==
    /\ saved = << >>
    /\ otherBodies = << >>
    /\ grid = << >>
    /\ game = NewGame
    /\ pc = "idle"
    /\ subSteps = 0
    /\ alpha = [defined |-> FALSE, value |-> 0]
    /\ lastCall = Call("constructor", 0)
    /\ entryAccumulator = 0
    /\ frameAtEntry = 0
    /\ stepCalls = 0
    /\ failed = FALSE
    /\ emitted = NoEmits
    /\ trace = << >>
    /\ lastEmit = NoEmit
    /\ accumulator = 0
    /\ frameCount = 0
    /\ paused = FALSE

Init ==
    /\ Fresh
    /\ heap = <<RigidBody(GroundOptions), RigidBody(BallOptions), RigidBody(StrayOptions)>>
    /\ bodies = <<1, 2, 3>>
    /\ forces = << >>
    /\ gravity = GRAVITY_EARTH
    /\ airDensity = 20
    /\ bounds = LoopBounds
    /\ timeScale = Scale
    /\ enableCollisions \in BOOLEAN
    /\ boundsEnabled \in BOOLEAN
    /\ \E ls \in LoopListeners :
          eventListeners = [e \in EventNames |->
              IF e \in {"step", "collision", "boundsCollision", "paused"} THEN ls ELSE << >>]

Next ==
    \/ \E dt \in DeltaTimes :
          /\ frameCount < MaxFrames
          /\ accumulator + ScaledDelta(dt, timeScale) <= MaxAccumulator
          /\ Update(dt)
    \/ LoopTest
    \/ ApplyGlobalForces
    \/ SolveConstraints
    \/ IntegrateBodies
    \/ HandleCollisions
    \/ EnforceBounds
    \/ EmitStep
    \/ Pause
    \/ Resume
    \/ \E sc \in TimeScales : SetTimeScale(sc)

Spec == Init /\ [][Next]_vars

\* ------------------------------------------------------------------------
\* Properties of the game loop (checked under Spec)
\* ------------------------------------------------------------------------

PhaseNames == {"applyGlobalForces", "solveConstraints", "integrateBodies",
               "handleCollisions", "enforceBounds"}

PhasesOf(tr) == SelectSeq(tr, LAMBDA e : e \in PhaseNames)

Count(tr, e) == Cardinality({i \in 1..Len(tr) : tr[i] = e})

\* the phase a trace entry belongs to: the last phase entered before it
PhaseAt(tr, i) ==
    LET ps == PhasesOf(SubSeq(tr, 1, i))
    IN  IF ps = << >> THEN "" ELSE ps[Len(ps)]

ExpectedPhases ==
    <<"applyGlobalForces", "solveConstraints", "integrateBodies">>
    \o (IF enableCollisions THEN <<"handleCollisions">> ELSE << >>)
    \o (IF boundsEnabled THEN <<"enforceBounds">> ELSE << >>)

StepJustFinished == pc = "update" /\ stepCalls > 0

UpdateReturned == pc = "idle" /\ lastCall.method = "update" /\ alpha.defined

\* C1: whenever a step has finished, the phases it ran are applyGlobalForces,
\* solveConstraints, integrateBodies, then handleCollisions iff enableCollisions,
\* then enforceBounds iff boundsEnabled, in this order and each once; collision
\* events were emitted inside handleCollisions only and boundsCollision events
\* inside enforceBounds only; the step's last effect is exactly one 'step' event,
\* and every step of the running update has raised frameCount by one.
C1_StepPhaseOrder ==
    StepJustFinished =>
        /\ PhasesOf(trace) = ExpectedPhases
        /\ Count(trace, "step") = 1
        /\ trace[Len(trace)] = "step"
        /\ \A i \in 1..Len(trace) :
              /\ trace[i] = "collision" => PhaseAt(trace, i) = "handleCollisions"
              /\ trace[i] = "boundsCollision" => PhaseAt(trace, i) = "enforceBounds"
        /\ emitted["step"] = stepCalls
        /\ frameCount = frameAtEntry + stepCalls

C1_Witness ==
    /\ StepJustFinished
    /\ enableCollisions /\ boundsEnabled
    /\ Count(trace, "collision") > 0
    /\ Count(trace, "boundsCollision") > 0

C1_WitnessNoCollisions ==
    /\ StepJustFinished
    /\ ~enableCollisions /\ ~boundsEnabled
    /\ trace = <<"applyGlobalForces", "solveConstraints", "integrateBodies", "step">>

\* C2: when an unpaused update returns, the number of step calls it made is
\* min(floor(accumulator / fixedTimeStep), maxSubSteps), accumulator taken right
\* after deltaTime * timeScale was added; so it is never more than maxSubSteps.
C2_SubStepCount ==
    UpdateReturned =>
        /\ stepCalls = Min2(Floor(entryAccumulator, FixedTimeStep), MaxSubSteps)
        /\ frameCount - frameAtEntry = stepCalls
        /\ stepCalls <= MaxSubSteps

\* an update that owed more than maxSubSteps steps
C2_Witness ==
    /\ UpdateReturned
    /\ Floor(entryAccumulator, FixedTimeStep) > MaxSubSteps
    /\ stepCalls = MaxSubSteps

\* C3: when an unpaused update returns, the value returned is
\* accumulator / fixedTimeStep and lies in [0, 1): less than one fixed step is
\* left in the accumulator.
C3_AlphaIsFraction ==
    UpdateReturned =>
        /\ alpha.value = Alpha(accumulator)
        /\ 0 <= alpha.value /\ alpha.value < Scale
        /\ accumulator < FixedTimeStep

\* C4: no emit is left by an exception: every emit returns, having invoked all
\* the listeners registered for its event (a throwing one included, the others
\* after it), no client call fails, and every step an update started has run to
\* its end (frameCount counts it).
C4_ListenerIsolation ==
    /\ ~failed
    /\ lastEmit.returned
    /\ lastEmit.calls = lastEmit.registered
    /\ UpdateReturned => frameCount = frameAtEntry + stepCalls

\* an update whose steps emitted collision and step events to a throwing
\* listener followed by a plain one, and that ran all its steps
C4_Witness ==
    /\ UpdateReturned
    /\ stepCalls >= 2
    /\ emitted["collision"] > 0
    /\ lastEmit.event = "step"
    /\ lastEmit.registered = <<"thrower", "plain">>
    /\ lastEmit.calls = <<"thrower", "plain">>
    /\ frameCount = frameAtEntry + stepCalls

\* ------------------------------------------------------------------------
\* SpecListeners: a client registers and removes callbacks for the 'paused'
\* event, some of which change the listener list themselves, and pauses and
\* resumes the engine.
\* ------------------------------------------------------------------------

EmptyWorld ==
    /\ heap = << >>
    /\ bodies = << >>
    /\ forces = << >>
    /\ gravity = GRAVITY_EARTH
    /\ airDensity = 1225
    /\ bounds = DefaultBounds
    /\ timeScale = Scale
    /\ enableCollisions = TRUE
    /\ boundsEnabled = TRUE

InitListeners ==
    /\ Fresh
    /\ EmptyWorld
    /\ eventListeners = [e \in EventNames |-> << >>]

NextListeners ==
    \/ \E cb \in Callbacks : On("paused", cb)
    \/ \E cb \in Callbacks : Off("paused", cb)
    \/ Pause
    \/ Resume

SpecListeners == InitListeners /\ [][NextListeners]_vars

\* C5: every emit invokes the listeners that were registered for its event
\* when it was called, each once and in registration order, whatever the
\* listeners do to the listener list meanwhile: the calls of an emit begin with
\* the list registered at its start (listeners added meanwhile may follow).
C5_EmitCallsRegistered ==
    /\ Len(lastEmit.calls) >= Len(lastEmit.registered)
    /\ SubSeq(lastEmit.calls, 1, Len(lastEmit.registered)) = lastEmit.registered

\* ------------------------------------------------------------------------
\* SpecWorld: a client creates bodies, adds them to and removes them from the
\* world, clears it, and saves and reloads it.
\* ------------------------------------------------------------------------

\* a level obstacle as createLevelEntities builds it (isStatic, mass left out),
\* and a body given a negative mass
PlateOptions ==
    [NoOptions EXCEPT !.id = <<112>>, !.position = Vec(0, 0), !.shape = "rectangle",
                      !.width = 80000, !.height = 20000, !.isStatic = TRUE]

GhostOptions ==
    [NoOptions EXCEPT !.id = <<110>>, !.position = Vec(50000, 0), !.mass = 0 - 1000]

WorldOptions == {BallOptions, PlateOptions, GhostOptions}

InitWorld ==
    /\ Fresh
    /\ EmptyWorld
    /\ eventListeners = [e \in EventNames |->
                            IF e \in {"bodyAdded", "bodyRemoved"} THEN <<"plain">> ELSE << >>]

NextWorld ==
    \/ \E o \in WorldOptions : CreateBody(o)
    \/ \E b \in Bodies : AddBody(b)
    \/ \E b \in Bodies : RemoveBody(b)
    \/ Clear
    \/ Serialize
    \/ Deserialize

SpecWorld == InitWorld /\ [][NextWorld]_vars

NoDuplicates(s) == \A i, j \in 1..Len(s) : s[i] = s[j] => i = j

\* what an addBody / removeBody call may do to the body list and the events
AddRemoveEffect ==
    /\ lastCall'.method = "addBody" =>
          /\ emitted'["bodyRemoved"] = 0
          /\ IF SeqContains(bodies, lastCall'.body)
             THEN bodies' = bodies /\ emitted'["bodyAdded"] = 0
             ELSE bodies' = Append(bodies, lastCall'.body) /\ emitted'["bodyAdded"] = 1
    /\ lastCall'.method = "removeBody" =>
          /\ emitted'["bodyAdded"] = 0
          /\ IF SeqContains(bodies, lastCall'.body)
             THEN /\ SeqRange(bodies') = SeqRange(bodies) \ {lastCall'.body}
                  /\ emitted'["bodyRemoved"] = 1
             ELSE bodies' = bodies /\ emitted'["bodyRemoved"] = 0

\* C6: the body list never holds a body twice, whatever addBody, removeBody,
\* clear and deserialize calls were made; addBody of a body already in the world
\* and removeBody of a body not in it leave the list unchanged and emit nothing;
\* an effective add or remove changes the list by that body and emits exactly
\* one bodyAdded / bodyRemoved.
C6_BodiesUnique ==
    /\ [](NoDuplicates(bodies))
    /\ [][AddRemoveEffect]_vars

\* a second addBody of a body that is in a world of two bodies did nothing
C6_Witness ==
    /\ lastCall.method = "addBody"
    /\ SeqContains(bodies, lastCall.body)
    /\ emitted["bodyAdded"] = 0
    /\ Len(bodies) >= 2

\* C7: for every body, inverseMass is 0 exactly when mass <= 0 or the body is
\* static.
C7_InverseMassZeroIffStatic ==
    \A b \in Bodies :
        (heap[b].inverseMass = 0) <=> (heap[b].mass <= 0 \/ heap[b].isStatic)

\* ------------------------------------------------------------------------
\* SpecForces: a client pushes bodies around between frames.  The world holds
\* a static peg, a ball that falls onto the peg while it slides along a static
\* beam above it, and a light floater far from the others; the beam sticks out
\* of the world bounds on both sides.
\* ------------------------------------------------------------------------

MaxSteps == 2

MaxSpeed == 2000

PegOptions ==
    [NoOptions EXCEPT !.id = <<112>>, !.position = Vec(0, 500), !.isStatic = TRUE]

SliderOptions ==
    [BallOptions EXCEPT !.velocity = Vec(1000, 0)]

BeamOptions ==
    [NoOptions EXCEPT !.id = <<99>>, !.position = Vec(0, 39000), !.shape = "rectangle",
                      !.width = 220000, !.height = 20000, !.isStatic = TRUE]

FloaterOptions ==
    [NoOptions EXCEPT !.id = <<102>>, !.position = Vec(0 - 50000, 0 - 50000), !.mass = 500]

\* the options of the bodies of the world, in the order they are created and added
ForcesWorld == <<PegOptions, SliderOptions, BeamOptions, FloaterOptions>>

Peg == IndexOf(ForcesWorld, PegOptions)

Slider == IndexOf(ForcesWorld, SliderOptions)

Beam == IndexOf(ForcesWorld, BeamOptions)

Floater == IndexOf(ForcesWorld, FloaterOptions)

\* the bodies the client pushes
Pushed == {Peg, Floater}

Push == Vec(0, 3000)

Kick == Vec(500, 0)

Twist == Scale

\* the contact a client passes when it resolves a collision by hand
HandContact == Contact(Vec(0, Scale), 1000, VZero)

InitForces ==
    /\ Fresh
    /\ heap = [i \in 1..Len(ForcesWorld) |-> RigidBody(ForcesWorld[i])]
    /\ bodies = [i \in 1..Len(ForcesWorld) |-> i]
    /\ forces = << >>
    /\ gravity = GRAVITY_EARTH
    /\ airDensity = 0
    /\ bounds = LoopBounds
    /\ timeScale = Scale
    /\ enableCollisions = TRUE
    /\ boundsEnabled = TRUE
    /\ eventListeners = [e \in EventNames |-> << >>]

NextForces ==
    \/ \E b \in Pushed : ApplyForce(b, Push)
    \/ \E b \in Pushed : Abs(heap[b].velocity.x) < MaxSpeed /\ ApplyImpulse(b, Kick)
    \/ \E b \in Pushed : heap[b].torque = 0 /\ ApplyTorque(b, Twist)
    \/ ResolveCollision(Peg, Beam, HandContact)
    \/ frameCount < MaxSteps /\ Update(FixedTimeStep)
    \/ LoopTest
    \/ ApplyGlobalForces
    \/ SolveConstraints
    \/ IntegrateBodies
    \/ HandleCollisions
    \/ EnforceBounds
    \/ EmitStep

SpecForces == InitForces /\ [][NextForces]_vars

\* no step changes the position or the velocity of a static body
StaticUntouched ==
    \A b \in Bodies :
        heap[b].isStatic =>
            /\ heap'[b].position = heap[b].position
            /\ heap'[b].velocity = heap[b].velocity

\* the step is the client's peg.resolveCollision(beam, contact): every client
\* call records itself in lastCall
StaticPairResolved ==
    /\ pc = "idle"
    /\ lastCall'.method = "resolveCollision"
    /\ heap[Peg].isStatic /\ heap[Beam].isStatic

\* C8: the position and the velocity of a static body are never changed, by
\* applyForce, applyImpulse or resolveCollision called on it, nor by the
\* integration, the collision response (as either operand, friction included)
\* or the bounds enforcement of an engine step; resolveCollision between two
\* static bodies changes nothing at all.
C8_StaticBodiesStay ==
    [][StaticUntouched /\ (StaticPairResolved => heap' = heap)]_vars

\* a step has resolved, impulse and friction included, the collisions of the
\* peg (as `this`) and of the beam (as `other`) with the moving slider
C8_Witness ==
    /\ StepJustFinished
    /\ heap[Peg].isStatic /\ heap[Peg].colliding
    /\ heap[Beam].isStatic /\ heap[Beam].colliding
    /\ heap[Slider].velocity # SliderOptions.velocity

\* C9: after every step, every body in the world has no pending force and zero
\* torque and netForce, whether it was awake or asleep when forces were applied.
C9_ForcesCleared ==
    StepJustFinished =>
        \A i \in 1..Len(bodies) :
            /\ heap[bodies[i]].forces = << >>
            /\ heap[bodies[i]].torque = 0
            /\ heap[bodies[i]].netForce = VZero

\* C10: applyForce and applyImpulse leave a non-static body awake, and no body
\* is asleep with a non-zero velocity or a pending force.
C10_SleepersAreStill ==
    /\ (pc = "idle" /\ lastCall.method \in {"applyForce", "applyImpulse"}
        /\ ~heap[lastCall.body].isStatic) => ~heap[lastCall.body].isSleeping
    /\ \A b \in Bodies :
          heap[b].isSleeping => heap[b].velocity = VZero /\ heap[b].forces = << >>

\* ------------------------------------------------------------------------
\* SpecBody: one body outside any world.  A client applies forces, impulses
\* and torques to it and integrates it by hand, as integrateBodies does:
\* calculateNetForce(), then integrate(fixedTimeStep).
\* ------------------------------------------------------------------------

MaxTravel == 20

Spin == 30 * Scale

BodyOptions == {BallOptions, FloaterOptions}

InitBody ==
    /\ Fresh
    /\ \E o \in BodyOptions : heap = <<RigidBody(o)>>
    /\ bodies = << >>
    /\ forces = << >>
    /\ gravity = GRAVITY_EARTH
    /\ airDensity = 1225
    /\ bounds = DefaultBounds
    /\ timeScale = Scale
    /\ enableCollisions = TRUE
    /\ boundsEnabled = TRUE
    /\ eventListeners = [e \in EventNames |-> << >>]

NextBody ==
    \/ \E b \in Bodies : heap[b].forces = << >> /\ ApplyForce(b, Push)
    \/ \E b \in Bodies : heap[b].velocity = VZero /\ ApplyImpulse(b, Kick)
    \/ \E b \in Bodies : heap[b].torque = 0 /\ ApplyTorque(b, Spin)
    \/ \E b \in Bodies : CalculateNetForce(b)
    \/ \E b \in Bodies :
          /\ \E o \in BodyOptions :
                /\ o.id = heap[b].id
                /\ VMagnitude(VSub(heap[b].position, o.position)) < MaxTravel
          /\ Integrate(b, FixedTimeStep)

SpecBody == InitBody /\ [][NextBody]_vars

\* the velocities integrate(dt) computes before it looks at the kinetic energy
Integrated(b, dt) ==
    [b EXCEPT !.velocity = VAdd(b.velocity, VTimesDt(VMul(b.netForce, b.inverseMass), dt)),
              !.angularVelocity =
                  b.angularVelocity + TimesDt(FMul(b.netTorque, b.inverseMomentOfInertia), dt)]

\* the step is heap[lastCall'.body].integrate(fixedTimeStep) on a non-static body
IntegrateCalled ==
    /\ pc = "idle"
    /\ lastCall'.method = "integrate"
    /\ ~heap[lastCall'.body].isStatic

SleepDecision(before, after) ==
    IF getKineticEnergy(Integrated(before, FixedTimeStep)) < SleepThreshold
    THEN after.isSleeping /\ after.velocity = VZero /\ after.angularVelocity = 0
    ELSE /\ ~after.isSleeping
         /\ after.velocity = Integrated(before, FixedTimeStep).velocity
         /\ after.angularVelocity = Integrated(before, FixedTimeStep).angularVelocity

\* C11: right after integrate(dt) on a non-static body, if the kinetic energy
\* of the integrated velocities is below sleepThreshold the body is asleep with
\* velocity (0,0) and angularVelocity 0; otherwise it is awake and keeps the
\* integrated velocities.
C11_SleepAfterIntegrate ==
    [][IntegrateCalled => SleepDecision(heap[lastCall'.body], heap'[lastCall'.body])]_vars

\* integrate put to sleep a body that it had moved, stopping it
C11_Witness ==
    /\ lastCall.method = "integrate"
    /\ heap[lastCall.body].isSleeping
    /\ \E o \in BodyOptions :
          o.id = heap[lastCall.body].id /\ heap[lastCall.body].position # o.position

\* integrate left awake a body that turns and moves
C11_WitnessAwake ==
    /\ lastCall.method = "integrate"
    /\ ~heap[lastCall.body].isSleeping
    /\ heap[lastCall.body].angularVelocity # 0
    /\ heap[lastCall.body].velocity # VZero

\* ------------------------------------------------------------------------
\* SpecContact: two bodies that touch or overlap, of every pair of shapes,
\* dynamic or static, at rest or moving.  A client detects their collision and
\* resolves it as handleCollisions does: first.resolveCollision(second, contact)
\* with the contact the narrow phase returns for (first, second).
\* ------------------------------------------------------------------------

\* shape and size
ContactShapes ==
    { [NoOptions EXCEPT !.shape = "circle", !.radius = 10000],
      [NoOptions EXCEPT !.shape = "rectangle", !.width = 20000, !.height = 10000] }

\* mass (absent for a static body, as createLevelEntities leaves it)
ContactMasses ==
    { [mass |-> Scale, isStatic |-> FALSE], [mass |-> 2 * Scale, isStatic |-> FALSE],
      [mass |-> 0, isStatic |-> TRUE] }

\* where the second body is; the first is at the origin
ContactPositions == { Vec(19000, 0), Vec(0, 0 - 15000), Vec(3000, 4000) }

\* the velocities of the first and of the second body
ContactVelocities ==
    { <<VZero, VZero>>, <<Vec(2000, 1000), Vec(0 - 1000, 0)>>,
      <<Vec(0, 0 - 2000), Vec(0, 1000)>>, <<Vec(0 - 1000, 0), Vec(2000, 0)>>,
      <<Vec(50000, 0), VZero>> }

\* restitution: left out (0.8) or 1
ContactRestitutions == {0, Scale}

ContactBody(id, shape, m, position, velocity, restitution) ==
    [shape EXCEPT !.id = id, !.mass = m.mass, !.isStatic = m.isStatic,
                  !.position = position, !.velocity = velocity,
                  !.restitution = restitution]

InitContact ==
    /\ Fresh
    /\ \E sa, sb \in ContactShapes, ma, mb \in ContactMasses, p \in ContactPositions,
          v \in ContactVelocities, e \in ContactRestitutions :
          \* the fast body of the head-on scenario meets a circle on the x axis
          /\ v[1].x = 50000 =>
                sa.shape = "circle" /\ sb.shape = "circle" /\ p.y = 0
          /\ heap = << RigidBody(ContactBody(<<97>>, sa, ma, VZero, v[1], e)),
                       RigidBody(ContactBody(<<98>>, sb, mb, p, v[2], e)) >>
    /\ bodies = <<1, 2>>
    /\ forces = << >>
    /\ gravity = GRAVITY_EARTH
    /\ airDensity = 1225
    /\ bounds = DefaultBounds
    /\ timeScale = Scale
    /\ enableCollisions = TRUE
    /\ boundsEnabled = TRUE
    /\ eventListeners = [e \in EventNames |-> << >>]

\* the other body of the pair
Other(b) == IF b = bodies[1] THEN bodies[2] ELSE bodies[1]

NextContact ==
    \/ lastCall.method = "constructor" /\ DetectCollisions
    \/ \E a \in Bodies :
          /\ lastCall.method \in {"constructor", "detectCollisions"}
          /\ narrowPhase(heap[a], heap[Other(a)]).hit
          /\ ResolveCollision(a, Other(a), narrowPhase(heap[a], heap[Other(a)]))

SpecContact == InitContact /\ [][NextContact]_vars

IsUnit(n) == Abs(VMagnitude(n) - Scale) <= 1

\* C12: every {bodyA, bodyB, collision} that detectCollisions returns has a
\* unit normal that points from bodyA toward bodyB,
\* normal . (bodyB.position - bodyA.position) >= 0, and a depth >= 0.
C12_NormalFromFirstToSecond ==
    lastCall.method = "detectCollisions" =>
        \A i \in 1..Len(lastCall.returned) :
            LET c == lastCall.returned[i]
            IN  /\ IsUnit(c.collision.normal)
                /\ VDot(c.collision.normal,
                        VSub(heap[c.bodyB].position, heap[c.bodyA].position)) >= 0
                /\ c.collision.depth >= 0

\* the step is heap[lastCall'.body].resolveCollision(other, contact), called by
\* the client with the narrow-phase contact of the two bodies
ResolveStep ==
    /\ pc = "idle"
    /\ lastCall'.method = "resolveCollision"

\* the distance a body moves in the step
Displacement(b) == VDistance(heap'[b].position, heap[b].position)

\* the overlap of a and b shrinks, and a dynamic body resolved against a static
\* one moves by the full depth
Separated(a, b) ==
    LET before == narrowPhase(heap[a], heap[b])
        after  == narrowPhase(heap'[a], heap'[b])
    IN  /\ before.depth > 0 => (~after.hit \/ after.depth < before.depth)
        /\ (~heap[a].isStatic /\ heap[b].isStatic) =>
              Abs(Displacement(a) - before.depth) <= 1
        /\ (heap[a].isStatic /\ ~heap[b].isStatic) =>
              Abs(Displacement(b) - before.depth) <= 1

\* C13: resolveCollision with the narrow-phase contact separates the two
\* bodies: the overlap afterwards is smaller than before, and a dynamic body
\* resolved against a static one is displaced by the full depth.
C13_ResolutionSeparates ==
    [][ResolveStep => Separated(lastCall'.body, Other(lastCall'.body))]_vars

\* mass * velocity summed over the two bodies, in units of 1 / Scale^2
Momentum(h) ==
    Vec(h[bodies[1]].mass * h[bodies[1]].velocity.x
          + h[bodies[2]].mass * h[bodies[2]].velocity.x,
        h[bodies[1]].mass * h[bodies[1]].velocity.y
          + h[bodies[2]].mass * h[bodies[2]].velocity.y)

\* the total momentum is the same before and after the step, up to the rounding
\* of one velocity unit per body
MomentumKept ==
    LET change == VSub(Momentum(heap'), Momentum(heap))
        tolerance == heap[bodies[1]].mass + heap[bodies[2]].mass
    IN  Abs(change.x) <= tolerance /\ Abs(change.y) <= tolerance

\* C14 as stated: for any two bodies, resolveCollision (friction included)
\* leaves the total linear momentum unchanged.
C14_MomentumAnyBodies ==
    [][ResolveStep => MomentumKept]_vars

\* C14, amended: for any two non-static bodies, resolveCollision (friction
\* included) leaves the total linear momentum unchanged.
C14_MomentumConserved ==
    [][(ResolveStep /\ ~heap[bodies[1]].isStatic /\ ~heap[bodies[2]].isStatic)
          => MomentumKept]_vars

\* two dynamic bodies of different mass have been resolved, impulse and
\* friction applied, and the lighter one has changed direction
C14_Witness ==
    /\ lastCall.method = "resolveCollision"
    /\ ~heap[bodies[1]].isStatic /\ ~heap[bodies[2]].isStatic
    /\ heap[bodies[1]].mass # heap[bodies[2]].mass
    /\ heap[bodies[1]].colliding /\ heap[bodies[2]].colliding
    /\ \A v \in ContactVelocities : heap[bodies[1]].velocity # v[1]

\* u x v, unscaled
Cross(u, v) == u.x * v.y - u.y * v.x

\* two circles of equal mass and restitution 1 that approach each other along
\* their line of centres
HeadOn(a, b) ==
    LET centres == VSub(b.position, a.position)
        closing == VSub(b.velocity, a.velocity)
    IN  /\ a.shape = "circle" /\ b.shape = "circle"
        /\ ~a.isStatic /\ ~b.isStatic
        /\ a.mass = b.mass
        /\ a.restitution = Scale /\ b.restitution = Scale
        /\ Cross(a.velocity, centres) = 0 /\ Cross(b.velocity, centres) = 0
        /\ closing.x * centres.x + closing.y * centres.y < 0

Exchanged(a, b) ==
    /\ heap'[a].velocity = heap[b].velocity
    /\ heap'[b].velocity = heap[a].velocity

\* C15: two circles of equal mass with restitution 1 in a head-on collision have
\* exchanged their velocities after resolveCollision; a circle moving at (50,0)
\* toward a stationary one ends at rest and the other moves at (50,0).
C15_HeadOnExchange ==
    [][(ResolveStep /\ HeadOn(heap[lastCall'.body], heap[Other(lastCall'.body)]))
          => Exchanged(lastCall'.body, Other(lastCall'.body))]_vars

\* the scenario: the circle that moved at (50,0) is at rest and the stationary
\* one moves at (50,0)
C15_Witness ==
    /\ lastCall.method = "resolveCollision"
    /\ heap[bodies[1]].shape = "circle" /\ heap[bodies[2]].shape = "circle"
    /\ heap[bodies[1]].mass = heap[bodies[2]].mass
    /\ heap[bodies[1]].restitution = Scale /\ heap[bodies[2]].restitution = Scale
    /\ ~heap[bodies[1]].isStatic /\ ~heap[bodies[2]].isStatic
    /\ heap[bodies[1]].velocity = VZero
    /\ heap[bodies[2]].velocity = Vec(50000, 0)

\* a falling circle of mass 1 and restitution 0.8 is in contact with a static
\* rectangle below it that spans the circle's x-range
Landing(ball, ground) ==
    /\ ball.shape = "circle" /\ ~ball.isStatic
    /\ ball.mass = Scale /\ ball.restitution = DefaultRestitution
    /\ ground.shape = "rectangle" /\ ground.isStatic
    /\ ground.restitution >= ball.restitution
    /\ getBounds(ground).left <= getBounds(ball).left
    /\ getBounds(ball).right <= getBounds(ground).right
    /\ ground.position.y < ball.position.y
    /\ ball.velocity.y < 0
    /\ narrowPhase(ball, ground).hit

\* the ball leaves the phase moving up at 0.8 times the speed it came down
\* with (within the rounding of one division); the ground has not moved
Rebound(ball, ground) ==
    /\ Abs(heap'[ball].velocity.y - FMul(0 - heap[ball].velocity.y, DefaultRestitution)) <= 1
    /\ heap'[ground].position = heap[ground].position
    /\ heap'[ground].velocity = heap[ground].velocity

\* C16: when a circle of mass 1 and restitution 0.8 falling under gravity is in
\* contact with a static ground rectangle, the step's collision handling
\* reverses its velocity along the normal and scales it by 0.8, and the ground
\* does not move.
C16_GroundBounce ==
    [][\A ball, ground \in Bodies :
          (pc = "handleCollisions" /\ Landing(heap[ball], heap[ground]))
              => Rebound(ball, ground)]_vars

\* ------------------------------------------------------------------------
\* SpecBounds: a body is placed near or across the sides and corners of a
\* small world, at rest or moving, next to a static beam that sticks out of
\* the world; the client integrates it and calls enforceBounds().
\* ------------------------------------------------------------------------

CageBounds == [left |-> 0 - 15000, right |-> 15000, top |-> 50000, bottom |-> 0 - 50000]

\* a circle of radius 10, a 20 x 10 rectangle and a rectangle wider than the world
CageShapes ==
    { [NoOptions EXCEPT !.id = <<97>>, !.mass = Scale],
      [NoOptions EXCEPT !.id = <<97>>, !.mass = Scale, !.shape = "rectangle",
                        !.width = 20000, !.height = 10000],
      [NoOptions EXCEPT !.id = <<97>>, !.mass = Scale, !.shape = "rectangle",
                        !.width = 40000, !.height = 10000] }

CagePositions ==
    { Vec(x, y) : x \in {0 - 10000, 0, 10000}, y \in {0 - 48000, 0, 48000} }

CageVelocities == { VZero, Vec(0 - 3000, 2000), Vec(3000, 0 - 2000) }

InitBounds ==
    /\ Fresh
    /\ \E o \in CageShapes, p \in CagePositions, v \in CageVelocities :
          heap = <<RigidBody([o EXCEPT !.position = p, !.velocity = v]),
                   RigidBody(BeamOptions)>>
    /\ bodies = [i \in 1..2 |-> i]
    /\ forces = << >>
    /\ gravity = GRAVITY_EARTH
    /\ airDensity = 0
    /\ bounds = CageBounds
    /\ timeScale = Scale
    /\ enableCollisions = TRUE
    /\ boundsEnabled = TRUE
    /\ eventListeners = [e \in EventNames |-> << >>]

NextBounds ==
    \/ \E b \in Bodies : lastCall.method = "constructor" /\ Integrate(b, FixedTimeStep)
    \/ EnforceBoundsCall

SpecBounds == InitBounds /\ [][NextBounds]_vars

EnforceBoundsStep == pc = "idle" /\ lastCall'.method = "enforceBounds"

\* the body is no wider and no taller than the world
FitsIn(b, wb) ==
    /\ getBounds(b).right - getBounds(b).left <= wb.right - wb.left
    /\ getBounds(b).top - getBounds(b).bottom <= wb.top - wb.bottom

\* v with its sign flipped and its magnitude scaled by the restitution
Bounced(v, b) == FMul(v, 0 - b.restitution)

\* the claim as stated, for body `before` that the call left as `after`: the
\* body is inside on every side it exceeded, with the velocity component of
\* that axis flipped and scaled
BoundsEnforcedAlways(before, after, wb) ==
    /\ getBounds(before).left < wb.left =>
          /\ getBounds(after).left >= wb.left
          /\ after.velocity.x = Bounced(before.velocity.x, before)
    /\ getBounds(before).right > wb.right =>
          /\ getBounds(after).right <= wb.right
          /\ after.velocity.x = Bounced(before.velocity.x, before)
    /\ getBounds(before).bottom < wb.bottom =>
          /\ getBounds(after).bottom >= wb.bottom
          /\ after.velocity.y = Bounced(before.velocity.y, before)
    /\ getBounds(before).top > wb.top =>
          /\ getBounds(after).top <= wb.top
          /\ after.velocity.y = Bounced(before.velocity.y, before)

\* the same with the velocity flipped only when it points out of the world on
\* the side the body exceeded, and left alone otherwise
BoundsEnforced(before, after, wb) ==
    /\ getBounds(before).left < wb.left =>
          /\ getBounds(after).left >= wb.left
          /\ after.velocity.x = IF before.velocity.x < 0
                                THEN Bounced(before.velocity.x, before)
                                ELSE before.velocity.x
    /\ getBounds(before).right > wb.right =>
          /\ getBounds(after).right <= wb.right
          /\ after.velocity.x = IF before.velocity.x > 0
                                THEN Bounced(before.velocity.x, before)
                                ELSE before.velocity.x
    /\ getBounds(before).bottom < wb.bottom =>
          /\ getBounds(after).bottom >= wb.bottom
          /\ after.velocity.y = IF before.velocity.y < 0
                                THEN Bounced(before.velocity.y, before)
                                ELSE before.velocity.y
    /\ getBounds(before).top > wb.top =>
          /\ getBounds(after).top <= wb.top
          /\ after.velocity.y = IF before.velocity.y > 0
                                THEN Bounced(before.velocity.y, before)
                                ELSE before.velocity.y

\* C17: after one enforceBounds call every non-static body whose AABB exceeded
\* the world rectangle on some side has its AABB inside the rectangle on that
\* side, and its velocity component on that axis has its sign flipped and its
\* magnitude multiplied by the body's restitution.
C17_BoundsEnforcedAlways ==
    [][EnforceBoundsStep =>
          \A i \in 1..Len(bodies) :
              ~heap[bodies[i]].isStatic =>
                  BoundsEnforcedAlways(heap[bodies[i]], heap'[bodies[i]], bounds)]_vars

\* C17 (amended): after one enforceBounds call every non-static body that fits
\* in the world rectangle and whose AABB exceeded it on some side has its AABB
\* inside on that side; the velocity component on that axis is flipped and
\* scaled by the restitution if it pointed out of the world on that side, and
\* is unchanged otherwise.
C17_BoundsEnforced ==
    [][EnforceBoundsStep =>
          \A i \in 1..Len(bodies) :
              (~heap[bodies[i]].isStatic /\ FitsIn(heap[bodies[i]], bounds)) =>
                  BoundsEnforced(heap[bodies[i]], heap'[bodies[i]], bounds)]_vars

\* the circle that left the world through its top left corner at (-3,2) is
\* back inside against both sides and moves at (2.4,-1.6)
C17_Witness ==
    /\ lastCall.method = "enforceBounds"
    /\ heap[bodies[1]].shape = "circle"
    /\ getBounds(heap[bodies[1]]).left = bounds.left
    /\ getBounds(heap[bodies[1]]).top = bounds.top
    /\ heap[bodies[1]].velocity = Vec(2400, 0 - 1600)

\* the circle that was outside the same corner but moved inward at (3,-2) is
\* back inside with its velocity unchanged
C17_WitnessInward ==
    /\ lastCall.method = "enforceBounds"
    /\ heap[bodies[1]].shape = "circle"
    /\ getBounds(heap[bodies[1]]).left = bounds.left
    /\ getBounds(heap[bodies[1]]).top = bounds.top
    /\ heap[bodies[1]].velocity = Vec(3000, 0 - 2000)

\* ------------------------------------------------------------------------
\* SpecSave: a world of one body (a circle or a rectangle, static or not, of
\* a named or the default material) whose surface the client may set before
\* the world is saved with serialize() and loaded back with deserialize().
\* ------------------------------------------------------------------------

SaveShapes ==
    { [NoOptions EXCEPT !.id = <<97>>, !.mass = 2 * Scale, !.radius = 5000],
      [NoOptions EXCEPT !.id = <<97>>, !.mass = 2 * Scale, !.shape = "rectangle",
                        !.width = 30000, !.height = 8000] }

SavePositions == { Vec(3000, 0 - 4000), VZero }

SaveMaterials == { "", "ice" }

\* the restitution and friction values the client assigns
Surfaces ==
    { [restitution |-> 0, friction |-> 0],
      [restitution |-> 0, friction |-> 400],
      [restitution |-> 600, friction |-> 0],
      [restitution |-> Scale, friction |-> 400] }

InitSave ==
    /\ Fresh
    /\ \E o \in SaveShapes, p \in SavePositions, m \in SaveMaterials, s \in BOOLEAN :
          heap = <<RigidBody([o EXCEPT !.position = p, !.velocity = Vec(1000, 0 - 500),
                                       !.material = m, !.isStatic = s])>>
    /\ bodies = [i \in 1..1 |-> i]
    /\ forces = << >>
    /\ gravity = GRAVITY_EARTH
    /\ airDensity = 1225
    /\ bounds = LoopBounds
    /\ timeScale = Scale
    /\ enableCollisions = TRUE
    /\ boundsEnabled = TRUE
    /\ eventListeners = [e \in EventNames |-> << >>]

NextSave ==
    \/ \E i \in 1..Len(bodies), s \in Surfaces :
          /\ lastCall.method = "constructor"
          /\ SetSurface(bodies[i], s.restitution, s.friction)
    \/ Serialize
    \/ Deserialize

SpecSave == InitSave /\ [][NextSave]_vars

\* the step is deserialize(saved) where saved is the serialization of the
\* world as it is
RoundTripStep ==
    /\ pc = "idle"
    /\ lastCall'.method = "deserialize"
    /\ saved # << >>
    /\ saved[1].bodies = [i \in 1..Len(bodies) |-> toJSON(heap[bodies[i]])]

SameBody(a, b) ==
    /\ a.position = b.position /\ a.velocity = b.velocity
    /\ a.mass = b.mass /\ a.shape = b.shape
    /\ a.radius = b.radius /\ a.width = b.width /\ a.height = b.height
    /\ a.restitution = b.restitution /\ a.friction = b.friction
    /\ a.isStatic = b.isStatic /\ a.material = b.material

\* C18: deserialize(serialize(world)) yields a world with the same number of
\* bodies, each with position, velocity, mass, shape, radius, width, height,
\* restitution, friction, isStatic and material identical to the original's,
\* for every admissible value, restitution 0 and friction 0 included.
C18_RoundTrip ==
    [][RoundTripStep =>
          /\ Len(bodies') = Len(bodies)
          /\ \A i \in 1..Len(bodies) :
                SameBody(heap[bodies[i]], heap'[bodies'[i]])]_vars

\* ------------------------------------------------------------------------
\* SpecPairs: three circles with ids chosen by the client ("a", "b", "a-b",
\* not necessarily distinct), each on top of, next to, or far from the others;
\* the client runs the broad phase and removes and adds bodies.
\* ------------------------------------------------------------------------

PairIds == { <<97>>, <<98>>, <<97, Dash, 98>> }

PairPositions == { VZero, Vec(15000, 0), Vec(500000, 500000) }

PairBody(id, p) == RigidBody([NoOptions EXCEPT !.id = id, !.position = p])

InitPairs ==
    /\ Fresh
    /\ \E ids \in [1..3 -> PairIds], ps \in [1..3 -> PairPositions] :
          heap = [i \in 1..3 |-> PairBody(ids[i], ps[i])]
    /\ bodies = [i \in 1..3 |-> i]
    /\ forces = << >>
    /\ gravity = GRAVITY_EARTH
    /\ airDensity = 0
    /\ bounds = DefaultBounds
    /\ timeScale = Scale
    /\ enableCollisions = TRUE
    /\ boundsEnabled = TRUE
    /\ eventListeners = [e \in EventNames |-> << >>]

NextPairs ==
    \/ BroadPhaseCall
    \/ \E b \in Bodies : Len(bodies) = Len(heap) /\ RemoveBody(b)
    \/ \E b \in Bodies : AddBody(b)

SpecPairs == InitPairs /\ [][NextPairs]_vars

\* the unordered pairs of distinct bodies of the world whose AABBs overlap
OverlappingPairs ==
    { s \in SUBSET { bodies[i] : i \in 1..Len(bodies) } :
        \E a, b \in s : a # b /\ s = {a, b} /\ aabbOverlap(heap[a], heap[b]) }

\* how many times the sequence of pairs ps holds the unordered pair s
TimesReturned(ps, s) == Cardinality({ k \in 1..Len(ps) : {ps[k][1], ps[k][2]} = s })

\* C19: for any list of bodies with any ids, broadPhase returns exactly the
\* unordered pairs of distinct bodies whose AABBs overlap, each pair once.
C19_ExactPairs ==
    lastCall.method = "broadPhase" =>
        /\ \A k \in 1..Len(lastCall.returned) :
              {lastCall.returned[k][1], lastCall.returned[k][2]} \in OverlappingPairs
        /\ \A s \in OverlappingPairs : TimesReturned(lastCall.returned, s) = 1

\* ------------------------------------------------------------------------
\* SpecRays: rays along the axes are cast into worlds made of a far target
\* circle, a crate in front of it, a circle behind the origin and a rectangle
\* above it; the client removes and adds bodies between the casts.
\* ------------------------------------------------------------------------

MaxAcross == 40000

TargetOptions ==
    [NoOptions EXCEPT !.id = <<116>>, !.position = Vec(100000, 0), !.radius = 10000]

CrateOptions ==
    [NoOptions EXCEPT !.id = <<99>>, !.position = Vec(40000, 0), !.shape = "rectangle",
                      !.width = 20000, !.height = 10000]

RearOptions ==
    [NoOptions EXCEPT !.id = <<114>>, !.position = Vec(0 - 30000, 8000), !.radius = 10000]

RoofOptions ==
    [NoOptions EXCEPT !.id = <<111>>, !.position = Vec(0, 30000), !.shape = "rectangle",
                      !.width = 20000, !.height = 10000]

RayWorld == <<TargetOptions, CrateOptions, RearOptions, RoofOptions>>

Target == IndexOf(RayWorld, TargetOptions)

RayOrigins == { VZero, Vec(95000, 0), Vec(0, 5000) }

RayDirections == { Vec(Scale, 0), Vec(0 - Scale, 0), Vec(0, Scale) }

RayLengths == { Infinity, 90000, 30000, 5000 }

\* the distance between the centre of body b and the line of the ray
Across(b, origin, direction) ==
    Abs(FMul(b.position.x - origin.x, direction.y)
        - FMul(b.position.y - origin.y, direction.x))

\* the distance along the ray to the point nearest to the centre of body b
Along(b, origin, direction) == VDot(VSub(b.position, origin), direction)

InitRays ==
    /\ Fresh
    /\ heap = [i \in 1..Len(RayWorld) |-> RigidBody(RayWorld[i])]
    /\ bodies = [i \in 1..Len(RayWorld) |-> i]
    /\ forces = << >>
    /\ gravity = GRAVITY_EARTH
    /\ airDensity = 0
    /\ bounds = DefaultBounds
    /\ timeScale = Scale
    /\ enableCollisions = TRUE
    /\ boundsEnabled = TRUE
    /\ eventListeners = [e \in EventNames |-> << >>]

NextRays ==
    \/ \E o \in RayOrigins, d \in RayDirections, m \in RayLengths :
          /\ \A i \in 1..Len(bodies) : Across(heap[bodies[i]], o, d) <= MaxAcross
          /\ Raycast(o, d, m)
    \/ \E b \in Bodies : RemoveBody(b)
    \/ \E b \in Bodies : AddBody(b)

SpecRays == InitRays /\ [][NextRays]_vars

\* half the extent of body b along the ray and across it, for a ray along an axis
HalfAlong(b, direction) ==
    IF direction.x # 0 THEN RDiv(b.width, 2) ELSE RDiv(b.height, 2)

HalfAcross(b, direction) ==
    IF direction.x # 0 THEN RDiv(b.height, 2) ELSE RDiv(b.width, 2)

\* the line of the ray meets body b
Meets(b, origin, direction) ==
    IF b.shape = "circle" THEN Across(b, origin, direction) <= b.radius
    ELSE Across(b, origin, direction) <= HalfAcross(b, direction)

\* the distance along the ray at which it enters body b
Entry(b, origin, direction) ==
    IF b.shape = "circle"
    THEN Along(b, origin, direction)
         - FSqrt(FMul(b.radius, b.radius)
                 - FMul(Across(b, origin, direction), Across(b, origin, direction)))
    ELSE Along(b, origin, direction) - HalfAlong(b, direction)

\* the bodies of the world the ray of call c enters at a distance in [0, maxDistance]
Intersected(c) ==
    { b \in { bodies[i] : i \in 1..Len(bodies) } :
        /\ Meets(heap[b], c.origin, c.direction)
        /\ Entry(heap[b], c.origin, c.direction) >= 0
        /\ Entry(heap[b], c.origin, c.direction) <= c.maxDistance }

ClosestReturned(c) ==
    IF Intersected(c) = {} THEN ~c.returned.hit
    ELSE /\ c.returned.hit
         /\ c.returned.body \in Intersected(c)
         /\ c.returned.distance = Entry(heap[c.returned.body], c.origin, c.direction)
         /\ \A b \in Intersected(c) :
               c.returned.distance <= Entry(heap[b], c.origin, c.direction)

\* the ray from (0,0) in direction (1,0) against the target circle alone
ExampleRay(c) ==
    /\ c.origin = VZero /\ c.direction = Vec(Scale, 0) /\ c.maxDistance = Infinity
    /\ bodies = <<Target>>

\* C20: raycast returns the hit with the smallest distance among the bodies the
\* ray intersects at a distance in [0, maxDistance] and none when there is no
\* such body; the ray from (0,0) in direction (1,0) against the circle at
\* (100,0) of radius 10 returns distance 90 and normal (-1,0).
C20_ClosestHit ==
    lastCall.method = "raycast" =>
        /\ ClosestReturned(lastCall)
        /\ ExampleRay(lastCall) =>
              /\ lastCall.returned.distance = 90000
              /\ lastCall.returned.normal = Vec(0 - Scale, 0)

\* ------------------------------------------------------------------------
\* SpecShared: two engines and the bodies a client has created; the client
\* adds bodies to and removes them from either engine, and saves and reloads
\* the first one.
\* ------------------------------------------------------------------------

InitShared ==
    /\ Fresh
    /\ \E o \in WorldOptions : heap = <<RigidBody(o)>>
    /\ bodies = << >>
    /\ forces = << >>
    /\ gravity = GRAVITY_EARTH
    /\ airDensity = 1225
    /\ bounds = DefaultBounds
    /\ timeScale = Scale
    /\ enableCollisions = TRUE
    /\ boundsEnabled = TRUE
    /\ eventListeners = [e \in EventNames |-> << >>]

NextShared ==
    \/ \E b \in Bodies : AddBody(b)
    \/ \E b \in Bodies : RemoveBody(b)
    \/ \E b \in Bodies : OtherAddBody(b)
    \/ \E b \in Bodies : OtherRemoveBody(b)
    \/ Serialize
    \/ Deserialize

SpecShared == InitShared /\ [][NextShared]_vars

\* C21: a body belongs to at most one world at a time: no sequence of addBody,
\* removeBody and deserialize calls on two engines puts the same body in the
\* body collections of both.
C21_OneWorldPerBody ==
    \A b \in Bodies : ~(SeqContains(bodies, b) /\ SeqContains(otherBodies, b))

\* ------------------------------------------------------------------------
\* SpecRemoved: the target and the crate of SpecRays with collision detection
\* run between the client's calls, so that the spatial grid is filled; bodies
\* are removed and added, and rays are cast through the engine and through
\* its collisionDetection.
\* ------------------------------------------------------------------------

RemovedWorld == <<TargetOptions, CrateOptions>>

InitRemoved ==
    /\ Fresh
    /\ heap = [i \in 1..Len(RemovedWorld) |-> RigidBody(RemovedWorld[i])]
    /\ bodies = [i \in 1..Len(RemovedWorld) |-> i]
    /\ forces = << >>
    /\ gravity = GRAVITY_EARTH
    /\ airDensity = 0
    /\ bounds = DefaultBounds
    /\ timeScale = Scale
    /\ enableCollisions = TRUE
    /\ boundsEnabled = TRUE
    /\ eventListeners = [e \in EventNames |-> << >>]

NextRemoved ==
    \/ DetectCollisions
    \/ \E b \in Bodies : RemoveBody(b)
    \/ \E b \in Bodies : AddBody(b)
    \/ \E o \in RayOrigins, d \in RayDirections, m \in RayLengths :
          /\ \A b \in Bodies : Across(heap[b], o, d) <= MaxAcross
          /\ \/ Raycast(o, d, m)
             \/ GridRaycast(o, d, m)

SpecRemoved == InitRemoved /\ [][NextRemoved]_vars

\* C22: once removeBody(b) has returned the world holds no reference to b and
\* never acts on it again: b is absent from the body collection and from the
\* spatial grid used by later queries and raycasts, and no later raycast
\* returns b.
C22_RemovedIsGone ==
    \A b \in Bodies :
        ~SeqContains(bodies, b) =>
            /\ ~SeqContains(getAllBodies(grid, 1, << >>), b)
            /\ (lastCall.method \in {"raycast", "collisionDetection.raycast"}
                  /\ lastCall.returned.hit) => lastCall.returned.body # b

\* ------------------------------------------------------------------------
\* SpecLevels: a game whose engine holds one ball; the client loads levels by
\* index, in range or not, through the GameManager and through the
\* LevelManager, and objectives get completed in between.
\* ------------------------------------------------------------------------

MaxLevelHeap == 7

MaxLoads == 2

LevelIndexes == (0 - 1)..Len(Levels)

InitLevels ==
    /\ Fresh
    /\ heap = <<RigidBody(BallOptions)>>
    /\ bodies = [i \in 1..1 |-> i]
    /\ forces = << >>
    /\ gravity = GRAVITY_EARTH
    /\ airDensity = 1225
    /\ bounds = DefaultBounds
    /\ timeScale = Scale
    /\ enableCollisions = TRUE
    /\ boundsEnabled = TRUE
    /\ eventListeners = [e \in EventNames |-> << >>]

NextLevels ==
    \/ \E i \in LevelIndexes :
          /\ InRange(i) => Len(heap) + 2 + Len(Levels[i + 1].obstacles) <= MaxLevelHeap
          /\ GameLoadLevel(i)
    \/ \E i \in LevelIndexes :
          /\ InRange(i) => game.levelManager.levelLoaded < MaxLoads
          /\ LevelLoadLevel(i)
    \/ \E k \in 1..3 : CompleteObjective(k)

SpecLevels == InitLevels /\ [][NextLevels]_vars

\* the step is a loadLevel call with an index outside 0..levels.length-1
OutOfRangeLoad ==
    /\ pc = "idle"
    /\ lastCall'.method \in {"gameManager.loadLevel", "levelManager.loadLevel"}
    /\ ~InRange(lastCall'.levelIndex)

\* C23: loading an out-of-range level index returns the not-found value and
\* changes nothing: the LevelManager's current level, objectives and counters
\* are unchanged, no levelLoaded event is emitted, and GameManager.loadLevel
\* leaves its current level index and the bodies of the physics world unchanged.
C23_OutOfRangeIsNoOp ==
    [][OutOfRangeLoad =>
          /\ game' = game
          /\ bodies' = bodies
          /\ lastCall'.method = "levelManager.loadLevel" =>
                lastCall'.returned = NoLevel]_vars

\* ------------------------------------------------------------------------
\* SpecVectors: the client divides the position vector of a body, through
\* divide and through divideMut, by zero and by non-zero scalars.
\* ------------------------------------------------------------------------

\* body.position.divide(scalar)
Divide(b, scalar) ==
    /\ pc = "idle"
    /\ lastCall' = [method |-> "divide", body |-> b, scalar |-> scalar,
                    returned |-> divide(heap[b].position, scalar).returned]
    /\ SetCtx([CallCtx EXCEPT !.thrown = divide(heap[b].position, scalar).thrown])
    /\ UNCHANGED worldVars
    /\ UNCHANGED <<pc, clockVars, flagVars, loopVars>>

\* body.position.divideMut(scalar)
DivideMut(b, scalar) ==
    /\ pc = "idle"
    /\ heap' = [heap EXCEPT ![b].position = divideMut(@, scalar).this]
    /\ lastCall' = [method |-> "divideMut", body |-> b, scalar |-> scalar,
                    returned |-> heap'[b].position]
    /\ SetCtx([CallCtx EXCEPT !.thrown = divideMut(heap[b].position, scalar).thrown])
    /\ UNCHANGED <<bodies, forces, gravity, airDensity, bounds, grid, saved, game,
                   otherBodies, pc>>
    /\ UNCHANGED <<clockVars, flagVars, loopVars>>

VectorInputs == { Vec(x, y) : x, y \in {0 - 3000, 0, 1000, 3000} }

Scalars == { 0, 0 - 2000, 4000 }

InitVectors ==
    /\ Fresh
    /\ \E v \in VectorInputs : heap = <<RigidBody([NoOptions EXCEPT !.position = v])>>
    /\ bodies = << >>
    /\ forces = << >>
    /\ gravity = GRAVITY_EARTH
    /\ airDensity = 1225
    /\ bounds = DefaultBounds
    /\ timeScale = Scale
    /\ enableCollisions = TRUE
    /\ boundsEnabled = TRUE
    /\ eventListeners = [e \in EventNames |-> << >>]

NextVectors ==
    \/ \E b \in Bodies, s \in Scalars : Divide(b, s)
    \/ \E b \in Bodies, s \in Scalars : DivideMut(b, s)

SpecVectors == InitVectors /\ [][NextVectors]_vars

\* q is the fixed-point number nearest to a / s
IsQuotient(q, a, s) == 2 * Abs(q * s - a * Scale) <= Abs(s)

\* C24: divide(0) and divideMut(0) raise the division error for every vector,
\* the zero vector included, and divideMut(0) leaves x and y as they were; with
\* a non-zero scalar both give the component-wise quotient and raise nothing.
C24_DivisionByZero ==
    [][(pc = "idle" /\ lastCall'.method \in {"divide", "divideMut"}) =>
          IF lastCall'.scalar = 0
          THEN failed' /\ heap' = heap
          ELSE /\ ~failed'
               /\ IsQuotient(lastCall'.returned.x, heap[lastCall'.body].position.x,
                             lastCall'.scalar)
               /\ IsQuotient(lastCall'.returned.y, heap[lastCall'.body].position.y,
                             lastCall'.scalar)
               /\ lastCall'.method = "divide" => heap' = heap]_vars

C24_Witness ==
    /\ lastCall.method = "divideMut"
    /\ lastCall.scalar = 0
    /\ failed
    /\ heap[lastCall.body].position = Vec(1500, 0 - 500)

C24_WitnessZeroVector ==
    /\ lastCall.method = "divide"
    /\ lastCall.scalar = 0
    /\ failed
    /\ heap[lastCall.body].position = VZero

\* ------------------------------------------------------------------------
\* SpecRest: a world without gravity and without global forces that holds one
\* body, at rest or moving, far from the bounds.  The client runs update()
\* and also calls calculateNetForce() and integrate() on the body by hand.
\* ------------------------------------------------------------------------

RestOptions ==
    { [NoOptions EXCEPT !.id = <<114>>, !.position = Vec(0, 0)],
      [NoOptions EXCEPT !.id = <<115>>, !.position = Vec(10000, 0 - 5000), !.mass = 1],
      [NoOptions EXCEPT !.id = <<116>>, !.position = Vec(0 - 20000, 30000),
                        !.shape = "rectangle", !.width = 10000, !.height = 4000,
                        !.mass = 3000],
      [NoOptions EXCEPT !.id = <<117>>, !.position = Vec(0, 0), !.velocity = Vec(10, 0)],
      [NoOptions EXCEPT !.id = <<118>>, !.position = Vec(0, 0),
                        !.velocity = Vec(2000, 0 - 1000)] }

InitRest ==
    /\ Fresh
    /\ \E o \in RestOptions : heap = <<RigidBody(o)>>
    /\ bodies = [i \in 1..1 |-> i]
    /\ forces = << >>
    /\ gravity = ZERO_GRAVITY
    /\ airDensity \in {0, 20}
    /\ bounds = LoopBounds
    /\ timeScale = Scale
    /\ enableCollisions = TRUE
    /\ boundsEnabled = TRUE
    /\ eventListeners = [e \in EventNames |-> << >>]

\* the options body b was constructed from
Origin(b) == CHOOSE o \in RestOptions : o.id = heap[b].id

NextRest ==
    \/ \E dt \in DeltaTimes :
          /\ frameCount < MaxFrames
          /\ accumulator + ScaledDelta(dt, timeScale) <= MaxAccumulator
          /\ Update(dt)
    \/ LoopTest
    \/ ApplyGlobalForces
    \/ SolveConstraints
    \/ IntegrateBodies
    \/ HandleCollisions
    \/ EnforceBounds
    \/ EmitStep
    \/ \E b \in Bodies : CalculateNetForce(b)
    \/ \E b \in Bodies :
          /\ VDistance(heap[b].position, Origin(b).position) < MaxTravel
          /\ Integrate(b, FixedTimeStep)

SpecRest == InitRest /\ [][NextRest]_vars

\* the statement as written, for every non-static body whatever its velocity
C25_NothingMoves ==
    \A b \in Bodies :
        ~heap[b].isStatic =>
            /\ heap[b].position = Origin(b).position
            /\ heap[b].velocity = Origin(b).velocity

\* C25: conservation of rest.  A non-static body that is at rest, has no
\* applied force and lives in a world with zero gravity keeps its position and
\* its zero velocity through any number of integrate calls and engine steps.
C25_RestConserved ==
    \A b \in Bodies :
        (~heap[b].isStatic /\ Origin(b).velocity = VZero) =>
            /\ heap[b].position = Origin(b).position
            /\ heap[b].velocity = VZero

C25_Witness ==
    /\ pc = "idle"
    /\ frameCount >= 3
    /\ lastCall = Call("integrate", 1)
    /\ Origin(1).velocity = VZero
    /\ Origin(1).mass = 1
    /\ heap[1].isSleeping

\* ------------------------------------------------------------------------
\* SpecCage: the narrow world of SpecBounds with two dynamic bodies, each
\* inside, over one side, over a corner or wider than the world, and a static
\* beam that sticks out on both sides.  The client calls enforceBounds().
\* ------------------------------------------------------------------------

SecondOptions == [NoOptions EXCEPT !.id = <<98>>, !.mass = Scale]

SecondPositions == { Vec(0, 0), Vec(10000, 0), Vec(0 - 10000, 0 - 48000) }

InitCage ==
    /\ Fresh
    /\ \E o \in CageShapes, p \in CagePositions, q \in SecondPositions :
          heap = <<RigidBody([o EXCEPT !.position = p, !.velocity = Vec(0 - 3000, 2000)]),
                   RigidBody(BeamOptions),
                   RigidBody([SecondOptions EXCEPT !.position = q])>>
    /\ bodies = [i \in 1..3 |-> i]
    /\ forces = << >>
    /\ gravity = GRAVITY_EARTH
    /\ airDensity = 0
    /\ bounds = CageBounds
    /\ timeScale = Scale
    /\ enableCollisions = TRUE
    /\ boundsEnabled = TRUE
    /\ eventListeners = [e \in EventNames |-> << >>]

NextCage ==
    \/ \E b \in Bodies : lastCall.method = "constructor" /\ Integrate(b, FixedTimeStep)
    \/ EnforceBoundsCall

SpecCage == InitCage /\ [][NextCage]_vars

\* the sides of the world rectangle wb the AABB of b exceeds
SidesExceeded(b, wb) ==
    { side \in {"left", "right", "bottom", "top"} :
        \/ side = "left" /\ getBounds(b).left < wb.left
        \/ side = "right" /\ getBounds(b).right > wb.right
        \/ side = "bottom" /\ getBounds(b).bottom < wb.bottom
        \/ side = "top" /\ getBounds(b).top > wb.top }

\* the places in engine.bodies of the non-static bodies that exceed the bounds
Offenders ==
    { i \in 1..Len(bodies) :
        ~heap[bodies[i]].isStatic /\ SidesExceeded(heap[bodies[i]], bounds) # {} }

\* the largest element of a non-empty set of numbers
Last(S) == CHOOSE i \in S : \A j \in S : j <= i

\* C26: one enforceBounds call emits exactly one boundsCollision event for
\* each non-static body it corrected, also when the body was corrected on two
\* sides, carrying that body, and none for a body inside the bounds or static.
C26_OneEventPerCorrectedBody ==
    [][EnforceBoundsStep =>
          /\ emitted'["boundsCollision"] = Cardinality(Offenders)
          /\ Offenders # {} =>
                /\ lastEmit'.event = "boundsCollision"
                /\ lastEmit'.data = <<bodies[Last(Offenders)]>>
          /\ Offenders = {} => lastEmit' = lastEmit]_vars

\* the last call corrected the wide rectangle on two sides and the circle at
\* a corner, and left the static beam that sticks out alone
C26_Witness ==
    /\ lastCall.method = "enforceBounds"
    /\ emitted["boundsCollision"] = 2
    /\ lastEmit.data = <<3>>
    /\ heap[1].width = 40000
    /\ SidesExceeded(heap[2], bounds) = {"left", "right"}
    /\ heap[2].isStatic

\* ------------------------------------------------------------------------
\* SpecSleep: a world with earth gravity whose only body is dropped from
\* rest, far from the bounds; the game loop calls update() frame after frame,
\* also with a deltaTime of zero.
\* SpecSleepFair adds that the loop keeps running.
\* ------------------------------------------------------------------------

\* the 'spring' tool of placeTool, a lighter and two heavier bodies
DroppedOptions ==
    { [NoOptions EXCEPT !.id = <<100>>, !.position = Vec(0, 50000), !.radius = 10000,
                        !.mass = 500, !.restitution = 1200],
      [NoOptions EXCEPT !.id = <<100>>, !.position = Vec(0, 50000), !.mass = 100],
      [NoOptions EXCEPT !.id = <<100>>, !.position = Vec(0, 50000), !.mass = 1000],
      [NoOptions EXCEPT !.id = <<100>>, !.position = Vec(0, 50000), !.mass = 2000] }

InitSleep ==
    /\ Fresh
    /\ \E o \in DroppedOptions : heap = <<RigidBody(o)>>
    /\ bodies = [i \in 1..1 |-> i]
    /\ forces = << >>
    /\ gravity = GRAVITY_EARTH
    /\ airDensity = 0
    /\ bounds = DefaultBounds
    /\ timeScale = Scale
    /\ enableCollisions \in BOOLEAN
    /\ boundsEnabled \in BOOLEAN
    /\ eventListeners = [e \in EventNames |-> << >>]

\* a frame in which time has passed
TimedUpdate ==
    \E dt \in {FixedTimeStep, 2 * FixedTimeStep + 1} :
        /\ frameCount < MaxFrames
        /\ accumulator + ScaledDelta(dt, timeScale) <= MaxAccumulator
        /\ Update(dt)

NextSleep ==
    \/ TimedUpdate
    \/ accumulator < FixedTimeStep /\ Update(0)
    \/ LoopTest
    \/ ApplyGlobalForces
    \/ SolveConstraints
    \/ IntegrateBodies
    \/ HandleCollisions
    \/ EnforceBounds
    \/ EmitStep

SpecSleep == InitSleep /\ [][NextSleep]_vars

\* the game loop calls update() on every animation frame, and time passes
\* between frames again and again
SpecSleepFair == SpecSleep /\ WF_vars(NextSleep) /\ SF_vars(TimedUpdate)

\* the heights at which the dropped body can be found in its first steps
DropHeights == 49996..49998

\* C27: sleep is temporary.  Under repeated update calls in a world with
\* gravity, a non-static body that was put to sleep with nothing under it is
\* eventually woken and integrated again: a body that is asleep at some height
\* while at least three more steps are still to run eventually leaves that
\* height.
C27_SleepIsTemporary ==
    \A y \in DropHeights :
        (heap[1].isSleeping /\ heap[1].position.y = y /\ frameCount + 3 <= MaxFrames)
            ~> (heap[1].position.y # y)

\* ------------------------------------------------------------------------
\* Pausing (checked under Spec)
\* ------------------------------------------------------------------------

\* the step is a client call of update(), pause() or resume()
ClockCall(method) == pc = "idle" /\ lastCall'.method = method

\* C28: while the engine is paused, update(deltaTime) executes no step and
\* leaves the accumulator, frameCount and every body unchanged; pause() and
\* resume() leave them unchanged too, so the first update after resume() starts
\* from the accumulator left before pause() plus its own scaled deltaTime, and
\* (C2) runs only the steps owed to that.
C28_PausedUpdateIsNoOp ==
    [][/\ (ClockCall("update") /\ paused) =>
             /\ pc' = "idle"
             /\ stepCalls' = stepCalls
             /\ accumulator' = accumulator
             /\ frameCount' = frameCount
             /\ heap' = heap
             /\ bodies' = bodies
       /\ (ClockCall("pause") \/ ClockCall("resume")) =>
             /\ accumulator' = accumulator
             /\ frameCount' = frameCount
             /\ heap' = heap
       /\ (ClockCall("update") /\ ~paused) =>
             \E dt \in DeltaTimes :
                 entryAccumulator' = accumulator + ScaledDelta(dt, timeScale)]_vars

\* update() was called on a paused engine that had run steps and still holds
\* a remainder in its accumulator
C28_Witness ==
    /\ paused
    /\ lastCall.method = "update"
    /\ accumulator > 0
    /\ frameCount > 0

\* ------------------------------------------------------------------------
\* SpecPile: a static ground, a static wall that overlaps the ground, a ball
\* that touches the ground and a second ball that touches the first.  The
\* client calls handleCollisions(); 'collision' has a listener that throws and
\* one that returns.
\* ------------------------------------------------------------------------

WallOptions ==
    [NoOptions EXCEPT !.id = <<119>>, !.position = Vec(0 - 50000, 40000),
                      !.shape = "rectangle", !.width = 20000, !.height = 100000,
                      !.isStatic = TRUE]

PileVelocities == { VZero, Vec(2000, 0 - 3000), Vec(0 - 1000, 1000) }

PilePositions == { Vec(15000, 25000), Vec(18000, 19000), Vec(0 - 30000, 30000) }

InitPile ==
    /\ Fresh
    /\ \E va, vb \in PileVelocities, p \in PilePositions :
          heap = <<RigidBody(GroundOptions), RigidBody(WallOptions),
                   RigidBody([BallOptions EXCEPT !.position = Vec(0, 19000),
                                                 !.velocity = va]),
                   RigidBody([NoOptions EXCEPT !.id = <<98>>, !.mass = 2000,
                                               !.position = p, !.velocity = vb])>>
    /\ bodies = [i \in 1..4 |-> i]
    /\ forces = << >>
    /\ gravity = GRAVITY_EARTH
    /\ airDensity = 0
    /\ bounds = DefaultBounds
    /\ timeScale = Scale
    /\ enableCollisions = TRUE
    /\ boundsEnabled = TRUE
    /\ eventListeners = [e \in EventNames |->
                            IF e = "collision" THEN <<"thrower", "plain">> ELSE << >>]

NextPile ==
    \/ lastCall.method \in {"constructor", "integrate"} /\ HandleCollisionsCall
    \/ \E b \in Bodies : lastCall.method = "constructor" /\ Integrate(b, FixedTimeStep)

SpecPile == InitPile /\ [][NextPile]_vars

\* the heap after the first k of the pairs have been resolved, in order
RECURSIVE Resolved(_, _, _)
Resolved(h, pairs, k) ==
    IF k = 0 THEN h
    ELSE CHOOSE after \in { resolveCollision(before, pairs[k].bodyA, pairs[k].bodyB,
                                             pairs[k].collision) :
                            before \in {Resolved(h, pairs, k - 1)} } : TRUE

\* what a handleCollisions call that found `pairs` on heap h leaves behind
PairsHandled(h, pairs) ==
    /\ emitted'["collision"] = Len(pairs)
    /\ \A k \in 1..Len(pairs) : ~(h[pairs[k].bodyA].isStatic /\ h[pairs[k].bodyB].isStatic)
    /\ pairs = << >> => lastEmit' = lastEmit /\ heap' = h
    /\ pairs # << >> =>
          \A before \in {Resolved(h, pairs, Len(pairs) - 1)} :
              /\ lastEmit'.event = "collision"
              /\ lastEmit'.data = <<pairs[Len(pairs)].bodyA, pairs[Len(pairs)].bodyB>>
              /\ lastEmit'.seen = <<before[pairs[Len(pairs)].bodyA].velocity,
                                    before[pairs[Len(pairs)].bodyB].velocity>>
              /\ lastEmit'.calls = lastEmit'.registered
              /\ heap' = resolveCollision(before, pairs[Len(pairs)].bodyA,
                                          pairs[Len(pairs)].bodyB,
                                          pairs[Len(pairs)].collision)

\* C29: in handleCollisions exactly one 'collision' event is emitted for every
\* pair detectCollisions returned, before that pair's resolveCollision runs, so
\* its listeners see the velocities the earlier pairs left; the pairs are
\* resolved in the order they were returned, and no event is emitted for a pair
\* of two static bodies.
C29_OneEventPerPair ==
    [][(pc = "idle" /\ lastCall'.method = "handleCollisions") =>
          \A h \in {ResetCollisionState(heap, bodies)} :
              \A pairs \in {detectCollisions(h, bodies)} : PairsHandled(h, pairs)]_vars

\* the call handled at least two pairs, the last one between the two balls,
\* and changed the velocity its listeners saw; the wall overlaps the ground
C29_Witness ==
    /\ lastCall.method = "handleCollisions"
    /\ emitted["collision"] >= 2
    /\ lastEmit.data = <<3, 4>>
    /\ lastEmit.seen[1] # heap[3].velocity
    /\ aabbOverlap(heap[1], heap[2])

\* ------------------------------------------------------------------------
\* SpecShapes: a world of two bodies whose shape tags are any of those the
\* constructor lists.  The client asks for their bounds and runs the
\* collision detection.
\* ------------------------------------------------------------------------

ShapeTags == {"", "circle", "rectangle", "polygon"}

ShapePositions == { Vec(0, 0), Vec(15000, 0), Vec(150000, 0) }

InitShapes ==
    /\ Fresh
    /\ \E sa, sb \in ShapeTags, p \in ShapePositions, st \in BOOLEAN :
          heap = <<RigidBody([NoOptions EXCEPT !.id = <<97>>, !.shape = sa,
                                              !.isStatic = st]),
                   RigidBody([NoOptions EXCEPT !.id = <<98>>, !.shape = sb,
                                              !.position = p, !.width = 30000])>>
    /\ bodies = [i \in 1..2 |-> i]
    /\ forces = << >>
    /\ gravity = GRAVITY_EARTH
    /\ airDensity = 0
    /\ bounds = DefaultBounds
    /\ timeScale = Scale
    /\ enableCollisions = TRUE
    /\ boundsEnabled = TRUE
    /\ eventListeners = [e \in EventNames |-> << >>]

NextShapes ==
    \/ \E b \in Bodies : GetBounds(b)
    \/ DetectCollisions

SpecShapes == InitShapes /\ [][NextShapes]_vars

\* C30: getBounds terminates and returns a box for every body that can be
\* constructed, whatever its shape tag, so getBounds and a detectCollisions
\* over a world that holds a body of shape 'polygon' return normally.
C30_GetBoundsTerminates ==
    lastCall.method \in {"getBounds", "detectCollisions"} => ~failed
====
